---------------------------- MODULE Spec2Model ----------------------------
(***************************************************************************)
(* A model of the Gluster RPC client of src/src/rpc.rs: the reply-header   *)
(* parser (unpack_replyheader) working on a byte cursor, and the record    *)
(* marking transport (send_fragment / sendrecord, recv_fragment /          *)
(* recvrecord) working on a byte stream.                                   *)
(*                                                                         *)
(* Representation.  A byte is a number 0..255.  A buffer, a stream and a   *)
(* Rust String (its UTF-8 bytes) are sequences of bytes.  TLC's integers   *)
(* are 32-bit signed, so a u32 is kept as the 4 bytes of its big-endian    *)
(* form (a "word"); an i32 is a number in -2^31 .. 2^31-1.  A cursor       *)
(* position is the number of bytes already consumed.                       *)
(***************************************************************************)
EXTENDS Integers, Sequences, FiniteSets, TLC

VARIABLES
    \* ---- reply parser (unpack_replyheader on a Cursor over reply bytes)
    reply,      \* the reply the server encoded (what the bytes were made from)
    data,       \* the bytes under the cursor (a prefix of the encoded reply)
    pos,        \* the cursor position: bytes consumed so far
    ppc,        \* "ready" | "header_done" | "payload_done"
    presult,    \* what unpack_replyheader returned, or Nothing
    tresult,    \* what the typed response decoder returned, or Nothing
    \* ---- record marking transport: one byte stream, its writer and its reader
    writer,     \* "peer": the server writes fragments; "self": sendrecord writes
    frags,      \* (peer) the fragments the peer sends, each [last, len]
    trailing,   \* (peer) bytes the peer sends after its fragments
    wire,       \* the bytes written to the stream so far
    closed,     \* the writing end is closed: the stream ends after wire
    srecord,    \* (self) the record handed to sendrecord
    spc,        \* sendrecord: "off" | "idle" | "header" | "payload" | "flush" | "done"
    bytes_written,  \* send_fragment's bytes_written
    sresult,    \* what sendrecord returned, or Nothing
    rpc,        \* recvrecord: "idle" | "header" | "body" | "done"
    rpos,       \* bytes of the stream the reader has consumed
    buffer,     \* recv_fragment's header buffer
    header,     \* recv_fragment's header (a word)
    fragment,   \* the fragment recv_fragment returned last
    nfrags,     \* how many fragments recv_fragment has returned
    record,     \* recvrecord's record
    last,       \* recvrecord's last
    rresult,    \* what recvrecord returned, or Nothing
    \* ---- encoders and decoders applied to one value
    cin,        \* the value handed to the encoder (or to the decoder, for a blob)
    cpc,        \* "off" | "ready" | "packed" | "done"
    enc,        \* what the encoder returned, or Nothing
    dec,        \* what the decoder returned, or Nothing
    \* ---- one call of get_quota_usage (src/src/volume.rs)
    qin,        \* the volume name and what the socket and the peer do
    qpc,        \* "off" | "pack" | "connect" | "send" | "recv" | "header" |
                \* "response" | "value" | "done" | "panicked"
    sock,       \* "none" | "open" | "closed": the UnixStream of the call
    qsteps,     \* the steps the call has run, in order
    qlocal,     \* the call's locals: call_bytes, reply_bytes, cursor, dict
    qresult     \* what get_quota_usage returned, or Nothing

pvars == <<reply, data, pos, ppc, presult, tresult>>
tvars == <<writer, frags, trailing, wire, closed, srecord, spc, bytes_written, sresult,
           rpc, rpos, buffer, header, fragment, nfrags, record, last, rresult>>
cvars == <<cin, cpc, enc, dec>>
qvars == <<qin, qpc, sock, qsteps, qlocal, qresult>>
vars == <<pvars, tvars, cvars, qvars>>

Nothing == [tag |-> "None"]

\* The encoders and decoders, not in use.
CodecIdle == cin = [kind |-> "none"] /\ cpc = "off" /\ enc = Nothing /\ dec = Nothing

\* No call of get_quota_usage under way.
QuotaIdle ==
    /\ qin = [kind |-> "none"] /\ qpc = "off" /\ sock = "none" /\ qsteps = <<>>
    /\ qlocal = Nothing /\ qresult = Nothing

(***************************************************************************)
(* Program constants (src/src/rpc.rs lines 25-38).                         *)
(***************************************************************************)
REPLY == 1
MSG_ACCEPTED == 0
MSG_DENIED == 1
SUCCESS == 0
PROG_UNAVAIL == 1
PROG_MISMATCH == 2
PROC_UNAVAIL == 3
GARBAGE_ARGS == 4
RPC_MISMATCH == 0
AUTH_ERROR == 1

(***************************************************************************)
(* Words: big-endian u32 / i32.                                            *)
(***************************************************************************)
Byte == 0..255

\* The value of a word whose top bit is clear (it fits TLC's integers).
U32Val(w) == ((w[1] * 256 + w[2]) * 256 + w[3]) * 256 + w[4]

\* A word read as an i32 (two's complement).
I32Val(w) ==
    IF w[1] < 128 THEN U32Val(w)
    ELSE (U32Val(<<w[1] - 128, w[2], w[3], w[4]>>) - 2147483647) - 1

\* The word of a number 0 .. 2^31-1.
WordOf(n) == <<n \div 16777216, (n \div 65536) % 256, (n \div 256) % 256, n % 256>>

\* The word of an i32 (two's complement).
I32Word(v) ==
    IF v >= 0 THEN WordOf(v)
    ELSE LET w == WordOf((v + 2147483647) + 1) IN <<w[1] + 128, w[2], w[3], w[4]>>

\* min(size, n) for a u32 word size and a small number n.
WordAtMost(w, n) == w[1] < 128 /\ U32Val(w) <= n

(***************************************************************************)
(* format!("{}", x) for the integers the error messages carry: the decimal *)
(* digits, most significant first, one character per element.              *)
(***************************************************************************)
DigitChars == <<"0", "1", "2", "3", "4", "5", "6", "7", "8", "9">>

RECURSIVE DecLimbs(_, _)
\* The digits of hi * 65536 + lo, for limbs hi, lo in 0..65535.
DecLimbs(hi, lo) ==
    LET t  == (hi % 10) * 65536 + lo
        qh == hi \div 10
        ql == t \div 10
    IN  IF qh = 0 /\ ql = 0 THEN <<DigitChars[(t % 10) + 1]>>
        ELSE DecLimbs(qh, ql) \o <<DigitChars[(t % 10) + 1]>>

fmt_u32(w) == DecLimbs(w[1] * 256 + w[2], w[3] * 256 + w[4])

fmt_i32(v) ==
    IF v >= 0 THEN DecLimbs(v \div 65536, v % 65536)
    ELSE LET m  == -(v + 1)
             hi == m \div 65536
             lo == m % 65536
         IN  <<"-">> \o (IF lo = 65535 THEN DecLimbs(hi + 1, 0) ELSE DecLimbs(hi, lo + 1))

(***************************************************************************)
(* GlusterError (src/src/lib.rs).  An error is its variant and, for the    *)
(* IoError built by GlusterError::new, its message: the literal pieces of  *)
(* the format string and the digits of the values, in order.               *)
(***************************************************************************)
GlusterErrorNew(msg) == [kind |-> "IoError", io |-> "Other", msg |-> msg]

\* byteorder's read_full met the end of the input: byteorder::Error::UnexpectedEOF,
\* converted by From<byteorder::Error>.
ByteOrderEof == [kind |-> "ByteOrder", io |-> "UnexpectedEOF", msg |-> <<>>]

\* String::from_utf8 refused the bytes, converted by From<FromUtf8Error>.
FromUtf8Error == [kind |-> "FromUtf8Error", io |-> "", msg |-> <<>>]

Err(e, p) == [tag |-> "Err", err |-> e, pos |-> p]

(***************************************************************************)
(* Reading from a cursor: d is the buffer, p the position.                 *)
(***************************************************************************)
\* ReadBytesExt::read_u32::<BigEndian>: all four bytes or UnexpectedEOF; a short
\* read leaves the cursor at the end of the buffer.
read_u32(d, p) ==
    IF p + 4 <= Len(d)
    THEN [tag |-> "Ok", v |-> SubSeq(d, p + 1, p + 4), pos |-> p + 4]
    ELSE Err(ByteOrderEof, Len(d))

\* ReadBytesExt::read_i32::<BigEndian>.
read_i32(d, p) ==
    LET r == read_u32(d, p)
    IN  IF r.tag = "Ok" THEN [tag |-> "Ok", v |-> I32Val(r.v), pos |-> r.pos] ELSE r

IsCont(b) == b >= 128 /\ b <= 191

RECURSIVE IsUtf8From(_, _)
\* Whether bytes i.. of s are well-formed UTF-8 (what String::from_utf8 accepts).
\* A run of ASCII bytes is passed over in one step.
IsUtf8From(s, i) ==
    IF i > Len(s) THEN TRUE
    ELSE LET b == s[i]
             has(k) == i + k <= Len(s)
             others == {k \in i..Len(s) : s[k] >= 128}
         IN  IF b < 128
             THEN others = {}
                  \/ IsUtf8From(s, CHOOSE k \in others : \A m \in others : k <= m)
             ELSE IF b >= 194 /\ b <= 223
                  THEN has(1) /\ IsCont(s[i + 1]) /\ IsUtf8From(s, i + 2)
             ELSE IF b >= 224 /\ b <= 239
                  THEN /\ has(2)
                       /\ IsCont(s[i + 1])
                       /\ (b = 224 => s[i + 1] >= 160)
                       /\ (b = 237 => s[i + 1] <= 159)
                       /\ IsCont(s[i + 2])
                       /\ IsUtf8From(s, i + 3)
             ELSE IF b >= 240 /\ b <= 244
                  THEN /\ has(3)
                       /\ IsCont(s[i + 1])
                       /\ (b = 240 => s[i + 1] >= 144)
                       /\ (b = 244 => s[i + 1] <= 143)
                       /\ IsCont(s[i + 2])
                       /\ IsCont(s[i + 3])
                       /\ IsUtf8From(s, i + 4)
             ELSE FALSE

from_utf8_ok(s) == IsUtf8From(s, 1)

\* A variant of unpack_string that also consumes the zero padding to the next
\* 4-byte boundary, as an XDR reader would.
unpack_string_padded(d, p, size) ==
    IF ~WordAtMost(size, Len(d) - p) THEN Err(ByteOrderEof, Len(d))
    ELSE LET n      == U32Val(size)
             pad    == (4 - (n % 4)) % 4
             bytes  == SubSeq(d, p + 1, p + n)
         IN  IF p + n + pad > Len(d) THEN Err(ByteOrderEof, Len(d))
             ELSE IF from_utf8_ok(bytes)
             THEN [tag |-> "Ok", v |-> bytes, pos |-> p + n + pad]
             ELSE Err(FromUtf8Error, p + n + pad)

\* unpack_string(data, size): size bytes, one read_u8 at a time, then
\* String::from_utf8.  The String is kept as its bytes.
unpack_string(d, p, size) ==
    IF ~WordAtMost(size, Len(d) - p) THEN Err(ByteOrderEof, Len(d))
    ELSE LET n      == U32Val(size)
             bytes  == SubSeq(d, p + 1, p + n)
         IN  IF from_utf8_ok(bytes)
             THEN [tag |-> "Ok", v |-> bytes, pos |-> p + n]
             ELSE Err(FromUtf8Error, p + n)

\* AuthFlavor::new
AuthFlavorNew(flavor) ==
    CASE flavor = 0 -> "AuthNull"
      [] flavor = 1 -> "AuthUnix"
      [] flavor = 2 -> "AuthShort"
      [] flavor = 3 -> "AuthDes"
      [] OTHER -> "AuthNull"

(***************************************************************************)
(* unpack_replyheader(data), from cursor position p.  The result is        *)
(* Ok((xid, auth)) or Err(error), with the cursor position it leaves.      *)
(***************************************************************************)
\* A variant of the denied branch that reports low and high in each other's place.
UnpackDenied_swapped(d, p) ==
    LET reason == read_i32(d, p)
    IN  IF reason.tag = "Err" THEN reason
        ELSE IF reason.v = RPC_MISMATCH
        THEN LET low == read_u32(d, reason.pos)
             IN  IF low.tag = "Err" THEN low
                 ELSE LET high == read_u32(d, low.pos)
                      IN  IF high.tag = "Err" THEN high
                          ELSE Err(GlusterErrorNew(<<"MSG_DENIED: ", "RPC_MISMATCH low: ">>
                                       \o fmt_u32(high.v) \o <<" high: ">> \o fmt_u32(low.v)),
                                   high.pos)
        ELSE IF reason.v = AUTH_ERROR
        THEN LET err == read_u32(d, reason.pos)
             IN  IF err.tag = "Err" THEN err
                 ELSE Err(GlusterErrorNew(<<"MSG_DENIED: ", "AUTH_ERROR ">> \o fmt_u32(err.v)),
                          err.pos)
        ELSE Err(GlusterErrorNew(<<"MSG_DENIED: ">> \o fmt_i32(reason.v)), reason.pos)

\* The branch taken for stat == MSG_DENIED, the cursor after stat at p.
UnpackDenied(d, p) ==
    LET reason == read_i32(d, p)
    IN  IF reason.tag = "Err" THEN reason
        ELSE IF reason.v = RPC_MISMATCH
        THEN LET low == read_u32(d, reason.pos)
             IN  IF low.tag = "Err" THEN low
                 ELSE LET high == read_u32(d, low.pos)
                      IN  IF high.tag = "Err" THEN high
                          ELSE Err(GlusterErrorNew(<<"MSG_DENIED: ", "RPC_MISMATCH low: ">>
                                       \o fmt_u32(low.v) \o <<" high: ">> \o fmt_u32(high.v)),
                                   high.pos)
        ELSE IF reason.v = AUTH_ERROR
        THEN LET err == read_u32(d, reason.pos)
             IN  IF err.tag = "Err" THEN err
                 ELSE Err(GlusterErrorNew(<<"MSG_DENIED: ", "AUTH_ERROR ">> \o fmt_u32(err.v)),
                          err.pos)
        ELSE Err(GlusterErrorNew(<<"MSG_DENIED: ">> \o fmt_i32(reason.v)), reason.pos)

\* The match on accept_message, the cursor after it at p.
AcceptDispatch(d, p, xid, rpc_auth, accept_message) ==
    CASE accept_message = PROG_UNAVAIL ->
            Err(GlusterErrorNew(<<"call failed PROG_UNAVAIL">>), p)
      [] accept_message = PROG_MISMATCH ->
            LET low == read_u32(d, p)
            IN  IF low.tag = "Err" THEN low
                ELSE LET high == read_u32(d, low.pos)
                     IN  IF high.tag = "Err" THEN high
                         ELSE Err(GlusterErrorNew(<<"Call failed: ", "PROG_MISMATCH low: ">>
                                      \o fmt_u32(low.v) \o <<" high: ">> \o fmt_u32(high.v)),
                                  high.pos)
      [] accept_message = PROC_UNAVAIL ->
            Err(GlusterErrorNew(<<"call failed PROC_UNAVAIL">>), p)
      [] accept_message = GARBAGE_ARGS ->
            Err(GlusterErrorNew(<<"call failed GARBAGE_ARGS">>), p)
      [] accept_message = SUCCESS ->
            [tag |-> "Ok", xid |-> xid, auth |-> rpc_auth, pos |-> p]
      [] OTHER ->
            Err(GlusterErrorNew(<<"Call failed: ">> \o fmt_i32(accept_message)), p)

\* The branch taken for stat == MSG_ACCEPTED, the cursor after stat at p.
UnpackAccepted(d, p, xid) ==
    LET auth_flavor == read_i32(d, p)
    IN  IF auth_flavor.tag = "Err" THEN auth_flavor
        ELSE LET size == read_u32(d, auth_flavor.pos)
             IN  IF size.tag = "Err" THEN size
                 ELSE LET stuff == unpack_string(d, size.pos, size.v)
                      IN  IF stuff.tag = "Err" THEN stuff
                          ELSE LET accept_message == read_i32(d, stuff.pos)
                               IN  IF accept_message.tag = "Err" THEN accept_message
                                   ELSE AcceptDispatch(d, accept_message.pos, xid,
                                            [flavor |-> AuthFlavorNew(auth_flavor.v),
                                             stuff  |-> stuff.v],
                                            accept_message.v)

\* A variant of unpack_replyheader that reads stat before it looks at msg_type.
unpack_replyheader_stat_first(d, p) ==
    LET xid == read_u32(d, p)
    IN  IF xid.tag = "Err" THEN xid
        ELSE LET msg_type == read_i32(d, xid.pos)
             IN  IF msg_type.tag = "Err" THEN msg_type
                 ELSE LET stat == read_i32(d, msg_type.pos)
                      IN  IF stat.tag = "Err" THEN stat
                          ELSE IF msg_type.v # REPLY
                          THEN Err(GlusterErrorNew(<<"Invalid reply with msg_type: ">>
                                       \o fmt_i32(msg_type.v)), stat.pos)
                          ELSE IF stat.v = MSG_DENIED THEN UnpackDenied(d, stat.pos)
                          ELSE IF stat.v = MSG_ACCEPTED THEN UnpackAccepted(d, stat.pos, xid.v)
                          ELSE Err(GlusterErrorNew(<<"MSG neither denied or accepted: ">>
                                       \o fmt_i32(stat.v)), stat.pos)

unpack_replyheader(d, p) ==
    LET xid == read_u32(d, p)
    IN  IF xid.tag = "Err" THEN xid
        ELSE LET msg_type == read_i32(d, xid.pos)
             IN  IF msg_type.tag = "Err" THEN msg_type
                 ELSE IF msg_type.v # REPLY
                 THEN Err(GlusterErrorNew(<<"Invalid reply with msg_type: ">>
                              \o fmt_i32(msg_type.v)), msg_type.pos)
                 ELSE LET stat == read_i32(d, msg_type.pos)
                      IN  IF stat.tag = "Err" THEN stat
                          ELSE IF stat.v = MSG_DENIED THEN UnpackDenied(d, stat.pos)
                          ELSE IF stat.v = MSG_ACCEPTED THEN UnpackAccepted(d, stat.pos, xid.v)
                          ELSE Err(GlusterErrorNew(<<"MSG neither denied or accepted: ">>
                                       \o fmt_i32(stat.v)), stat.pos)

(***************************************************************************)
(* The dictionary decoder and the typed response that follows the reply    *)
(* header on the same cursor.  A HashMap<String, Vec<u8>> is a function    *)
(* from keys (the bytes of the String) to values.                          *)
(***************************************************************************)
\* unpack_dict_bytes(data, size): size bytes, no UTF-8 check.
unpack_dict_bytes(d, p, size) ==
    IF ~WordAtMost(size, Len(d) - p) THEN Err(ByteOrderEof, Len(d))
    ELSE [tag |-> "Ok", v |-> SubSeq(d, p + 1, p + U32Val(size)), pos |-> p + U32Val(size)]

\* unpack_value(data, size, skip_null): size bytes, then one more byte read and
\* dropped when skip_null.
unpack_value(d, p, size, skip_null) ==
    IF ~WordAtMost(size, Len(d) - p) THEN Err(ByteOrderEof, Len(d))
    ELSE LET n == U32Val(size)
         IN  IF skip_null /\ p + n + 1 > Len(d) THEN Err(ByteOrderEof, Len(d))
             ELSE [tag |-> "Ok", v |-> SubSeq(d, p + 1, p + n),
                   pos |-> IF skip_null THEN p + n + 1 ELSE p + n]

RECURSIVE TrimStart(_)
TrimStart(s) == IF s # <<>> /\ Head(s) = 0 THEN TrimStart(Tail(s)) ELSE s

RECURSIVE TrimEnd(_)
TrimEnd(s) == IF s # <<>> /\ s[Len(s)] = 0 THEN TrimEnd(SubSeq(s, 1, Len(s) - 1)) ELSE s

\* str::trim_matches('\0'): NUL characters removed from both ends.
trim_matches_nul(s) == TrimEnd(TrimStart(s))

\* unpack_key(data, size)
unpack_key(d, p, size) ==
    LET v == unpack_value(d, p, size, TRUE)
    IN  IF v.tag = "Err" THEN v
        ELSE IF ~from_utf8_ok(v.v) THEN Err(FromUtf8Error, v.pos)
        ELSE [tag |-> "Ok", v |-> trim_matches_nul(v.v), pos |-> v.pos]

\* A variant of the insert that keeps the value a key already has.
MapInsert_keep_first(map, key, value) ==
    [k \in (DOMAIN map) \cup {key} |-> IF k \in DOMAIN map THEN map[k] ELSE value]

\* HashMap::insert
MapInsert(map, key, value) ==
    [k \in (DOMAIN map) \cup {key} |-> IF k = key THEN value ELSE map[k]]

EmptyMap == [k \in {} |-> <<>>]

RECURSIVE DeserializeEntries(_, _, _, _)
\* The loop of deserialize_dict: left more entries to read into map.
DeserializeEntries(d, p, left, map) ==
    IF left = 0 THEN [tag |-> "Ok", v |-> map, pos |-> p]
    ELSE LET key_len == read_u32(d, p)
         IN  IF key_len.tag = "Err" THEN key_len
             ELSE LET value_len == read_u32(d, key_len.pos)
                  IN  IF value_len.tag = "Err" THEN value_len
                      ELSE LET key == unpack_key(d, value_len.pos, key_len.v)
                           IN  IF key.tag = "Err" THEN key
                               ELSE LET value == unpack_value(d, key.pos, value_len.v, FALSE)
                                    IN  IF value.tag = "Err" THEN value
                                        ELSE DeserializeEntries(d, value.pos, left - 1,
                                                 MapInsert(map, key.v, value.v))

\* deserialize_dict(cursor).  Every entry takes at least 9 bytes, so a count above
\* the bytes there are runs the loop into the end of the input.
deserialize_dict(d, p) ==
    LET count == read_u32(d, p)
    IN  IF count.tag = "Err" THEN count
        ELSE DeserializeEntries(d, count.pos,
                 IF WordAtMost(count.v, Len(d)) THEN U32Val(count.v) ELSE Len(d) + 1,
                 EmptyMap)

\* GlusterCliPeerListResponse::unpack(data)
PeerListResponseUnpack(d, p) ==
    LET op_ret == read_i32(d, p)
    IN  IF op_ret.tag = "Err" THEN op_ret
        ELSE LET op_errno == read_i32(d, op_ret.pos)
             IN  IF op_errno.tag = "Err" THEN op_errno
                 ELSE LET size == read_u32(d, op_errno.pos)
                      IN  IF size.tag = "Err" THEN size
                          ELSE LET s == unpack_dict_bytes(d, size.pos, size.v)
                               IN  IF s.tag = "Err" THEN s
                                   ELSE LET friends == deserialize_dict(s.v, 0)
                                        IN  IF friends.tag = "Err"
                                            THEN Err(friends.err, s.pos)
                                            ELSE [tag |-> "Ok",
                                                  v |-> [op_ret   |-> op_ret.v,
                                                         op_errno |-> op_errno.v,
                                                         friends  |-> friends.v],
                                                  pos |-> s.pos]

(***************************************************************************)
(* The replies the server may send.  A reply is the values the server      *)
(* encoded; its bytes follow the reply layout: xid, msg_type, stat, then   *)
(* the accepted body (auth_flavor, verifier length, verifier bytes,        *)
(* accept_status, [low, high], payload) or the denied body (reason,        *)
(* [low, high | code]), or, for a reply that is neither, any bytes.        *)
(***************************************************************************)
MaxVerfLen == 2

SeqsUpTo(S, n) == UNION {[1..k -> S] : k \in 0..n}

ZeroWord == <<0, 0, 0, 0>>
Xids == {<<0, 0, 0, 1>>, <<255, 255, 255, 255>>}
BoundWords == {<<0, 0, 0, 2>>, <<128, 0, 0, 1>>}
Flavors == {0, 3, -1}
\* 65 is "A"; 195 169 is a two-byte UTF-8 character; 195 or 169 alone is not UTF-8.
VerfAlphabet == {65, 195, 169}
Verifiers == SeqsUpTo(VerfAlphabet, MaxVerfLen) \cup {ZeroWord}
AcceptStatuses == {SUCCESS, PROG_UNAVAIL, PROG_MISMATCH, PROC_UNAVAIL, GARBAGE_ARGS, 5, -1}
Reasons == {RPC_MISMATCH, AUTH_ERROR, 2, -1}
\* A peer-list response: op_ret 7, op_errno -2, and a 15-byte dictionary blob with
\* the one entry "k" -> "v" (count 1, key_len 1, value_len 1, "k", NUL, "v").
SamplePeerList == [op_ret |-> 7, op_errno |-> -2, friends |-> (<<107>> :> <<118>>)]
SamplePeerListBytes ==
    <<0, 0, 0, 7>> \o <<255, 255, 255, 254>> \o <<0, 0, 0, 15>>
    \o <<0, 0, 0, 1>> \o <<0, 0, 0, 1>> \o <<0, 0, 0, 1>> \o <<107, 0, 118>>
Payloads == {<<>>, SamplePeerListBytes}

NoBody == [b |-> "raw", auth_flavor |-> 0, verf |-> <<>>, accept_status |-> 0,
           reason |-> 0, low |-> ZeroWord, high |-> ZeroWord, code |-> ZeroWord,
           payload |-> <<>>]

AcceptedBodies ==
    {[NoBody EXCEPT !.b = "accepted", !.auth_flavor = f, !.verf = v,
                    !.accept_status = s, !.low = lh[1], !.high = lh[2], !.payload = pl] :
        f \in Flavors, v \in Verifiers, pl \in Payloads,
        s \in AcceptStatuses \ {PROG_MISMATCH}, lh \in {<<ZeroWord, ZeroWord>>}}
    \cup
    {[NoBody EXCEPT !.b = "accepted", !.auth_flavor = f, !.verf = v,
                    !.accept_status = PROG_MISMATCH, !.low = lh[1], !.high = lh[2],
                    !.payload = pl] :
        f \in Flavors, v \in Verifiers, pl \in Payloads,
        lh \in BoundWords \X BoundWords}

DeniedBodies ==
    {[NoBody EXCEPT !.b = "denied", !.reason = RPC_MISMATCH, !.low = lh[1],
                    !.high = lh[2], !.payload = pl] :
        lh \in BoundWords \X BoundWords, pl \in Payloads}
    \cup
    {[NoBody EXCEPT !.b = "denied", !.reason = AUTH_ERROR, !.code = c, !.payload = pl] :
        c \in BoundWords \cup {<<0, 0, 0, 1>>}, pl \in Payloads}
    \cup
    {[NoBody EXCEPT !.b = "denied", !.reason = r, !.payload = pl] :
        r \in Reasons \ {RPC_MISMATCH, AUTH_ERROR}, pl \in Payloads}

\* Bodies sent under a msg_type or stat that does not announce them.
StrayBodies ==
    {[NoBody EXCEPT !.payload = pl] : pl \in Payloads}
    \cup {b \in AcceptedBodies : b.auth_flavor = 0 /\ Len(b.verf) = 1 /\ b.payload = <<>>
                                  /\ b.accept_status \in {SUCCESS, PROC_UNAVAIL}}
    \cup {b \in DeniedBodies : b.payload = <<>> /\ b.reason # RPC_MISMATCH}

Replies ==
    {[xid |-> x, msg_type |-> REPLY, stat |-> MSG_ACCEPTED, body |-> b] :
        x \in Xids, b \in AcceptedBodies}
    \cup
    {[xid |-> x, msg_type |-> REPLY, stat |-> MSG_DENIED, body |-> b] :
        x \in Xids, b \in DeniedBodies}
    \cup
    {[xid |-> x, msg_type |-> REPLY, stat |-> s, body |-> b] :
        x \in Xids, s \in {2, -1}, b \in StrayBodies}
    \cup
    {[xid |-> x, msg_type |-> m, stat |-> s, body |-> b] :
        x \in Xids, m \in {0, 2, -1}, s \in {MSG_ACCEPTED, MSG_DENIED, 2}, b \in StrayBodies}

BodyBytes(b) ==
    CASE b.b = "accepted" ->
            I32Word(b.auth_flavor) \o WordOf(Len(b.verf)) \o b.verf
            \o I32Word(b.accept_status)
            \o (IF b.accept_status = PROG_MISMATCH THEN b.low \o b.high ELSE <<>>)
            \o b.payload
      [] b.b = "denied" ->
            I32Word(b.reason)
            \o (IF b.reason = RPC_MISMATCH THEN b.low \o b.high
                ELSE IF b.reason = AUTH_ERROR THEN b.code ELSE <<>>)
            \o b.payload
      [] OTHER -> b.payload

ReplyBytes(r) == r.xid \o I32Word(r.msg_type) \o I32Word(r.stat) \o BodyBytes(r.body)

\* The length of the reply up to the procedure-specific payload (or trailing bytes).
HeaderLen(r) == Len(ReplyBytes(r)) - Len(r.body.payload)

(***************************************************************************)
(* The reply parser as a state machine: a cursor is made over the reply    *)
(* bytes (which may have been cut short), and unpack_replyheader runs.     *)
(***************************************************************************)
\* The transport, not in use.
TransportIdle ==
    /\ writer = "none" /\ frags = <<>> /\ trailing = <<>> /\ wire = <<>> /\ closed = FALSE
    /\ srecord = <<>> /\ spc = "off" /\ bytes_written = 0 /\ sresult = Nothing
    /\ rpc = "off" /\ rpos = 0 /\ buffer = <<>> /\ header = ZeroWord /\ fragment = <<>>
    /\ nfrags = 0 /\ record = <<>> /\ last = FALSE /\ rresult = Nothing

InitReply ==
    /\ TransportIdle
    /\ CodecIdle
    /\ QuotaIdle
    /\ reply \in Replies
    \* The bytes may end early, anywhere; a cut inside the header of a reply with a
    \* payload gives the bytes of the same reply without one, and is left to it.
    /\ \E cut \in (IF reply.body.payload = <<>> THEN 0 ELSE HeaderLen(reply))
                    .. Len(ReplyBytes(reply)) :
           data = SubSeq(ReplyBytes(reply), 1, cut)
    /\ pos = 0
    /\ ppc = "ready"
    /\ presult = Nothing
    /\ tresult = Nothing

CallUnpackReplyheader ==
    /\ ppc = "ready"
    /\ LET r == unpack_replyheader(data, pos)
       IN  /\ presult' = IF r.tag = "Ok"
                         THEN [tag |-> "Ok", xid |-> r.xid, auth |-> r.auth]
                         ELSE [tag |-> "Err", err |-> r.err]
           /\ pos' = r.pos
    /\ ppc' = "header_done"
    /\ UNCHANGED <<reply, data, tresult, tvars, cvars, qvars>>

\* The caller goes on decoding the typed response from the same cursor (as in
\* tests::list_peers), only after the header parse succeeded.
CallPeerListResponseUnpack ==
    /\ ppc = "header_done"
    /\ presult.tag = "Ok"
    /\ LET r == PeerListResponseUnpack(data, pos)
       IN  /\ tresult' = IF r.tag = "Ok" THEN [tag |-> "Ok", v |-> r.v]
                         ELSE [tag |-> "Err", err |-> r.err]
           /\ pos' = r.pos
    /\ ppc' = "payload_done"
    /\ UNCHANGED <<reply, data, presult, tvars, cvars, qvars>>

NextReply == CallUnpackReplyheader \/ CallPeerListResponseUnpack

SpecReply == InitReply /\ [][NextReply]_vars

(***************************************************************************)
(* The outcomes the reply parser's claims name, as the errors the code     *)
(* builds for them.                                                        *)
(***************************************************************************)
InvalidReply(msg_type) ==
    GlusterErrorNew(<<"Invalid reply with msg_type: ">> \o fmt_i32(msg_type))
NeitherAcceptedNorDenied(stat) ==
    GlusterErrorNew(<<"MSG neither denied or accepted: ">> \o fmt_i32(stat))
RpcMismatch(low, high) ==
    GlusterErrorNew(<<"MSG_DENIED: ", "RPC_MISMATCH low: ">> \o fmt_u32(low)
                    \o <<" high: ">> \o fmt_u32(high))
AuthError(code) == GlusterErrorNew(<<"MSG_DENIED: ", "AUTH_ERROR ">> \o fmt_u32(code))
Denied(reason) == GlusterErrorNew(<<"MSG_DENIED: ">> \o fmt_i32(reason))
ProgUnavail == GlusterErrorNew(<<"call failed PROG_UNAVAIL">>)
ProgMismatch(low, high) ==
    GlusterErrorNew(<<"Call failed: ", "PROG_MISMATCH low: ">> \o fmt_u32(low)
                    \o <<" high: ">> \o fmt_u32(high))
ProcUnavail == GlusterErrorNew(<<"call failed PROC_UNAVAIL">>)
GarbageArgs == GlusterErrorNew(<<"call failed GARBAGE_ARGS">>)
UnknownAcceptStatus(s) == GlusterErrorNew(<<"Call failed: ">> \o fmt_i32(s))

\* unpack_replyheader has returned.
HeaderParsed == ppc # "ready"
\* The bytes hold the whole header of the reply (they may end inside the payload).
HeaderComplete == Len(data) >= HeaderLen(reply)
IsAccepted == reply.msg_type = REPLY /\ reply.stat = MSG_ACCEPTED
IsDenied == reply.msg_type = REPLY /\ reply.stat = MSG_DENIED

\* C1: an accepted reply with accept_status SUCCESS parses to Ok((xid, auth)) for
\* every xid, auth_flavor and verifier byte string, valid UTF-8 or not; the xid is
\* the reply's xid and auth.stuff is the verifier bytes.
C1_AcceptedSuccessIsOk ==
    (HeaderParsed /\ IsAccepted /\ HeaderComplete /\ reply.body.accept_status = SUCCESS)
        => /\ presult.tag = "Ok"
           /\ presult.xid = reply.xid
           /\ presult.auth.stuff = reply.body.verf

\* The error C2 names for an accept_status other than SUCCESS.
AcceptFailure(b) ==
    CASE b.accept_status = PROG_UNAVAIL -> ProgUnavail
      [] b.accept_status = PROG_MISMATCH -> ProgMismatch(b.low, b.high)
      [] b.accept_status = PROC_UNAVAIL -> ProcUnavail
      [] b.accept_status = GARBAGE_ARGS -> GarbageArgs
      [] OTHER -> UnknownAcceptStatus(b.accept_status)

\* C2: an accepted reply whose accept_status is not SUCCESS never parses to Ok, and
\* fails as ProgUnavail, ProgMismatch(low, high), ProcUnavail, GarbageArgs or
\* UnknownAcceptStatus(status) according to its accept_status; replies with
\* different accept_status (or different low/high) fail differently.
C2_AcceptedFailureDispatch ==
    /\ (HeaderParsed /\ IsAccepted /\ reply.body.accept_status # SUCCESS)
           => presult.tag = "Err"
    /\ (HeaderParsed /\ IsAccepted /\ HeaderComplete /\ reply.body.accept_status # SUCCESS)
           => presult.err = AcceptFailure(reply.body)
    /\ \A b1, b2 \in {b \in AcceptedBodies : b.auth_flavor = 0 /\ b.verf = <<>>
                                              /\ b.payload = <<>>
                                              /\ b.accept_status # SUCCESS} :
           b1 # b2 => AcceptFailure(b1) # AcceptFailure(b2)

\* The error C3 names for a reason.
DeniedFailure(b) ==
    CASE b.reason = RPC_MISMATCH -> RpcMismatch(b.low, b.high)
      [] b.reason = AUTH_ERROR -> AuthError(b.code)
      [] OTHER -> Denied(b.reason)

\* C3: a denied reply always fails, as RpcMismatch(low, high), AuthError(code) or
\* Denied(reason) according to its reason, carrying the reply's values; the cursor
\* has then consumed xid, msg_type, stat, reason and the values of that reason and
\* nothing else (no field of the accepted branch).
C3_DeniedAlwaysFails ==
    /\ (HeaderParsed /\ IsDenied) => presult.tag = "Err"
    /\ (HeaderParsed /\ IsDenied /\ HeaderComplete)
           => /\ presult.err = DeniedFailure(reply.body)
              /\ pos = 16 + (CASE reply.body.reason = RPC_MISMATCH -> 8
                               [] reply.body.reason = AUTH_ERROR -> 4
                               [] OTHER -> 0)

C3_Witness ==
    /\ HeaderParsed /\ IsDenied /\ HeaderComplete
    /\ reply.body.reason = RPC_MISMATCH
    /\ reply.body.low = <<0, 0, 0, 2>> /\ reply.body.high = <<128, 0, 0, 1>>
    /\ reply.body.payload # <<>>
    /\ presult.err.msg = <<"MSG_DENIED: ", "RPC_MISMATCH low: ", "2", " high: ",
                           "2", "1", "4", "7", "4", "8", "3", "6", "4", "9">>

\* C4: a message whose msg_type is not REPLY fails as InvalidReply once xid and
\* msg_type are read, whatever follows (the cursor stays after msg_type, and bytes
\* that end right there change nothing); a reply whose stat is neither
\* MSG_ACCEPTED nor MSG_DENIED fails as NeitherAcceptedNorDenied(stat).
C4_RejectsBadTypeAndStat ==
    /\ (HeaderParsed /\ Len(data) >= 8 /\ reply.msg_type # REPLY)
           => /\ presult = [tag |-> "Err", err |-> InvalidReply(reply.msg_type)]
              /\ pos = 8
    /\ (HeaderParsed /\ Len(data) >= 12 /\ reply.msg_type = REPLY
            /\ reply.stat \notin {MSG_ACCEPTED, MSG_DENIED})
           => /\ presult = [tag |-> "Err", err |-> NeitherAcceptedNorDenied(reply.stat)]
              /\ pos = 12

C4_Witness ==
    /\ HeaderParsed /\ Len(data) = 8 /\ reply.msg_type = -1
    /\ presult.tag = "Err"
    /\ presult.err.msg = <<"Invalid reply with msg_type: ", "-", "1">>

\* C5: whenever unpack_replyheader returns Ok the cursor has consumed exactly the
\* 24 + verifier_length bytes of the header and stands on the first byte of the
\* payload, so the typed decoder that continues on the cursor reads the payload's
\* fields.
C5_CursorAtPayload ==
    /\ (ppc = "header_done" /\ presult.tag = "Ok")
           => /\ pos = 24 + Len(reply.body.verf)
              /\ SubSeq(data, pos + 1, Len(data))
                     = SubSeq(reply.body.payload, 1, Len(data) - pos)
    /\ (ppc = "payload_done" /\ data = ReplyBytes(reply)
            /\ reply.body.payload = SamplePeerListBytes)
           => /\ tresult = [tag |-> "Ok", v |-> SamplePeerList]
              /\ pos = Len(data)

C5_Witness ==
    /\ ppc = "payload_done"
    /\ Len(reply.body.verf) = 1
    /\ tresult.tag = "Ok"
    /\ tresult.v.op_ret = 7

(***************************************************************************)
(* Record marking transport.  The stream is an in-order byte stream: wire  *)
(* holds what has been written, the reader has consumed rpos bytes of it,  *)
(* and once closed nothing more arrives.  A blocking read of up to k bytes *)
(* through take(k).read_to_end returns when k bytes are there or the       *)
(* stream has ended, whichever comes first.                                *)
(***************************************************************************)
MaxFrags == 2
MaxFragLen == 2
MaxRecordLen == 3

Min(a, b) == IF a <= b THEN a ELSE b

\* An io::Error of the operating system, converted by From<io::Error>.
IoFailure == [kind |-> "IoError", io |-> "Os", msg |-> <<>>]

\* ---- the peer's side of the stream
\* The payload of the peer's i-th fragment: len bytes that name the fragment and
\* the place in it.
FragPayload(i, len) == [j \in 1..len |-> 16 * i + j]

\* A fragment header as the peer writes it: bit 31 the last-fragment flag, bits
\* 0..30 the length.
FragHeader(lst, len) ==
    LET w == WordOf(len) IN <<w[1] + (IF lst THEN 128 ELSE 0), w[2], w[3], w[4]>>

RECURSIVE EncodeFrags(_, _)
\* The bytes of fragments i.. of fs.
EncodeFrags(fs, i) ==
    IF i > Len(fs) THEN <<>>
    ELSE FragHeader(fs[i].last, fs[i].len) \o FragPayload(i, fs[i].len)
         \o EncodeFrags(fs, i + 1)

RECURSIVE ConcatPayloads(_, _)
\* The payloads of fragments 1..k of fs, in order.
ConcatPayloads(fs, k) ==
    IF k = 0 THEN <<>> ELSE ConcatPayloads(fs, k - 1) \o FragPayload(k, fs[k].len)

FragLists == UNION {[1..k -> [last : BOOLEAN, len : 0..MaxFragLen]] : k \in 0..MaxFrags}
\* Bytes after the fragments: none, a stray byte, or a header without the last flag
\* that declares the largest length a header can (2^31 - 1) with nothing after it.
Trailings == {<<>>, <<9>>, <<127, 255, 255, 255>>}
Records == {[j \in 1..k |-> 64 + j] : k \in 0..MaxRecordLen}

PeerStream == EncodeFrags(frags, 1) \o trailing

\* ---- send_fragment / sendrecord
\* fragment.len() as u32
LenAsU32(frag) == WordOf(Len(frag))

\* send_fragment's header: length & 0x7fff_ffff, or length | 0x8000_0000 when last.
send_header(length, lst) ==
    IF lst THEN <<(length[1] % 128) + 128, length[2], length[3], length[4]>>
    ELSE <<length[1] % 128, length[2], length[3], length[4]>>

\* What socket.write(buf) may accept: some of the bytes, at least one if there are any.
WriteCounts(buf) == IF buf = <<>> THEN {0} ELSE 1..Len(buf)

\* ---- recv_fragment / recvrecord
\* (header & 0x8000_0000) != 0
\* A variant that takes the flag the other way round.
header_last_inverted(h) == h[1] < 128

header_last(h) == h[1] >= 128

\* header & 0x7fff_ffff
header_len(h) == U32Val(<<h[1] % 128, h[2], h[3], h[4]>>)

\* A variant of the fragment read that takes a fragment of no bytes for the end of
\* the stream.
recv_body_zero_is_eof(w, p, n) ==
    LET got == Min(n, Len(w) - p)
    IN  IF got = 0 THEN Err(GlusterErrorNew(<<"EOF Error">>), p)
        ELSE [tag |-> "Ok", v |-> SubSeq(w, p + 1, p + got), pos |-> p + got]

\* The `while n > 0` loop of recv_fragment: take(n).read_to_end appends the n
\* bytes, or the bytes there are when the stream ends before; then n = n - n.
recv_body(w, p, n) ==
    LET got == Min(n, Len(w) - p)
    IN  [tag |-> "Ok", v |-> SubSeq(w, p + 1, p + got), pos |-> p + got]

\* A variant of recvrecord's loop body that keeps the latest fragment only.
record_push_replace(rec, frag) == frag

\* for byte in frag { record.push(byte) }
record_push(rec, frag) == rec \o frag

\* The reply parser, not in use.
ReplyIdle ==
    /\ reply = Nothing /\ data = <<>> /\ pos = 0 /\ ppc = "off"
    /\ presult = Nothing /\ tresult = Nothing

InitTransport ==
    /\ ReplyIdle
    /\ CodecIdle
    /\ QuotaIdle
    /\ \/ /\ writer = "peer"
          /\ frags \in FragLists
          /\ trailing \in Trailings
          /\ srecord = <<>>
          /\ spc = "off"
       \/ /\ writer = "self"
          /\ frags = <<>>
          /\ trailing = <<>>
          /\ srecord \in Records
          /\ spc = "idle"
    /\ wire = <<>> /\ closed = FALSE
    /\ bytes_written = 0 /\ sresult = Nothing
    /\ rpc = "idle" /\ rpos = 0 /\ buffer = <<>> /\ header = ZeroWord /\ fragment = <<>>
    /\ nfrags = 0 /\ record = <<>> /\ last = FALSE /\ rresult = Nothing

rvars == <<rpc, rpos, buffer, header, fragment, nfrags, record, last, rresult>>
svars == <<srecord, spc, bytes_written, sresult>>
gvars == <<writer, frags, trailing>>

\* The peer's next bytes arrive.
PeerDeliver ==
    /\ writer = "peer" /\ ~closed
    /\ \E k \in 1..(Len(PeerStream) - Len(wire)) :
           wire' = SubSeq(PeerStream, 1, Len(wire) + k)
    /\ UNCHANGED <<pvars, cvars, qvars, gvars, closed, svars, rvars>>

\* The writing end is closed: by the peer at any time, by this side when the
\* socket is dropped after sendrecord has returned.
CloseStream ==
    /\ ~closed
    /\ \/ writer = "peer"
       \/ writer = "self" /\ spc = "done"
    /\ closed' = TRUE
    /\ UNCHANGED <<pvars, cvars, qvars, gvars, wire, svars, rvars>>

\* sendrecord(sock, record) calls send_fragment(sock, true, record).
SendrecordCall ==
    /\ spc = "idle"
    /\ spc' = "header"
    /\ bytes_written' = 0
    /\ UNCHANGED <<pvars, cvars, qvars, gvars, wire, closed, srecord, sresult, rvars>>

\* let mut bytes_written = socket.write(&header_buffer)?;
WriteHeader ==
    /\ spc = "header"
    /\ \/ \E k \in WriteCounts(send_header(LenAsU32(srecord), TRUE)) :
            /\ wire' = wire \o SubSeq(send_header(LenAsU32(srecord), TRUE), 1, k)
            /\ bytes_written' = k
            /\ spc' = "payload"
            /\ UNCHANGED sresult
       \/ /\ sresult' = [tag |-> "Err", err |-> IoFailure]
          /\ spc' = "done"
          /\ UNCHANGED <<wire, bytes_written>>
    /\ UNCHANGED <<pvars, cvars, qvars, gvars, closed, srecord, rvars>>

\* bytes_written += socket.write(fragment)?;
WritePayload ==
    /\ spc = "payload"
    /\ \/ \E k \in WriteCounts(srecord) :
            /\ wire' = wire \o SubSeq(srecord, 1, k)
            /\ bytes_written' = bytes_written + k
            /\ spc' = "flush"
            /\ UNCHANGED sresult
       \/ /\ sresult' = [tag |-> "Err", err |-> IoFailure]
          /\ spc' = "done"
          /\ UNCHANGED <<wire, bytes_written>>
    /\ UNCHANGED <<pvars, cvars, qvars, gvars, closed, srecord, rvars>>

\* socket.flush()?; Ok(bytes_written)
Flush ==
    /\ spc = "flush"
    /\ \/ sresult' = [tag |-> "Ok", v |-> bytes_written]
       \/ sresult' = [tag |-> "Err", err |-> IoFailure]
    /\ spc' = "done"
    /\ UNCHANGED <<pvars, cvars, qvars, gvars, wire, closed, srecord, bytes_written, rvars>>

\* recvrecord(sock): record = Vec::new(), last = false, into the loop.
RecvrecordCall ==
    /\ rpc = "idle"
    /\ rpc' = "header"
    /\ record' = <<>>
    /\ last' = FALSE
    /\ UNCHANGED <<pvars, cvars, qvars, gvars, wire, closed, svars, rpos, buffer, header, fragment,
                   nfrags, rresult>>

\* A variant of the header read with a deadline: it gives up on a stream that stays
\* open without the bytes.
RecvFragmentHeader_deadline ==
    /\ rpc = "header"
    /\ \/ /\ Len(wire) - rpos >= 4 \/ closed
          /\ LET got == Min(4, Len(wire) - rpos)
             IN  /\ buffer' = SubSeq(wire, rpos + 1, rpos + got)
                 /\ rpos' = rpos + got
                 /\ IF got < 4
                    THEN /\ rresult' = [tag |-> "Err", err |-> GlusterErrorNew(<<"EOF Error">>)]
                         /\ rpc' = "done"
                         /\ UNCHANGED header
                    ELSE /\ header' = buffer'
                         /\ rpc' = "body"
                         /\ UNCHANGED rresult
       \/ /\ rresult' = [tag |-> "Err", err |-> IoFailure]
          /\ rpc' = "done"
          /\ UNCHANGED <<buffer, rpos, header>>
       \/ /\ Len(wire) - rpos < 4 /\ ~closed
          /\ rresult' = [tag |-> "Err", err |-> GlusterErrorNew(<<"timed out">>)]
          /\ rpc' = "done"
          /\ UNCHANGED <<buffer, rpos, header>>
    /\ UNCHANGED <<pvars, cvars, qvars, gvars, wire, closed, svars, fragment, nfrags, record, last>>

\* recv_fragment, up to the header: take(4).read_to_end, the EOF check, the flag.
RecvFragmentHeader ==
    /\ rpc = "header"
    /\ \/ /\ Len(wire) - rpos >= 4 \/ closed
          /\ LET got == Min(4, Len(wire) - rpos)
             IN  /\ buffer' = SubSeq(wire, rpos + 1, rpos + got)
                 /\ rpos' = rpos + got
                 /\ IF got < 4
                    THEN /\ rresult' = [tag |-> "Err", err |-> GlusterErrorNew(<<"EOF Error">>)]
                         /\ rpc' = "done"
                         /\ UNCHANGED header
                    ELSE /\ header' = buffer'
                         /\ rpc' = "body"
                         /\ UNCHANGED rresult
       \/ /\ rresult' = [tag |-> "Err", err |-> IoFailure]
          /\ rpc' = "done"
          /\ UNCHANGED <<buffer, rpos, header>>
    /\ UNCHANGED <<pvars, cvars, qvars, gvars, wire, closed, svars, fragment, nfrags, record, last>>

\* recv_fragment, the fragment's bytes and its return; then recvrecord's loop body.
RecvFragmentBody ==
    /\ rpc = "body"
    /\ \/ /\ \/ header_len(header) = 0
             \/ Len(wire) - rpos >= header_len(header)
             \/ closed
          /\ LET r == recv_body(wire, rpos, header_len(header))
             IN  IF r.tag = "Ok"
                 THEN /\ fragment' = r.v
                      /\ rpos' = r.pos
                      /\ nfrags' = nfrags + 1
                      /\ last' = header_last(header)
                      /\ record' = record_push(record, r.v)
                      /\ IF last'
                         THEN /\ rresult' = [tag |-> "Ok", v |-> record']
                              /\ rpc' = "done"
                         ELSE /\ rpc' = "header"
                              /\ UNCHANGED rresult
                 ELSE /\ rresult' = [tag |-> "Err", err |-> r.err]
                      /\ rpc' = "done"
                      /\ UNCHANGED <<fragment, rpos, nfrags, last, record>>
       \/ /\ header_len(header) > 0
          /\ rresult' = [tag |-> "Err", err |-> IoFailure]
          /\ rpc' = "done"
          /\ UNCHANGED <<fragment, rpos, nfrags, last, record>>
    /\ UNCHANGED <<pvars, cvars, qvars, gvars, wire, closed, svars, buffer, header>>

NextTransport ==
    \/ PeerDeliver
    \/ CloseStream
    \/ SendrecordCall
    \/ WriteHeader
    \/ WritePayload
    \/ Flush
    \/ RecvrecordCall
    \/ RecvFragmentHeader
    \/ RecvFragmentBody

SpecTransport == InitTransport /\ [][NextTransport]_vars

(***************************************************************************)
(* Claims about the transport.                                             *)
(***************************************************************************)
EofError == [tag |-> "Err", err |-> GlusterErrorNew(<<"EOF Error">>)]
\* A read of the stream failed in the operating system.
ReadFailed == rresult = [tag |-> "Err", err |-> IoFailure]

\* C6: sendrecord writes, for every payload of length L, exactly one fragment, the
\* header L | 0x8000_0000 and the L payload bytes, and recvrecord reading that
\* stream returns exactly those bytes.
C6_RoundTrip ==
    /\ (writer = "self" /\ sresult.tag = "Ok")
           => wire = FragHeader(TRUE, Len(srecord)) \o srecord
    /\ (writer = "self" /\ sresult.tag = "Ok" /\ rpc = "done" /\ ~ReadFailed)
           => rresult = [tag |-> "Ok", v |-> srecord]

\* The peer sent at least one fragment and flagged exactly the final one as last.
OneRecord ==
    /\ writer = "peer"
    /\ Len(frags) >= 1
    /\ \A i \in 1..Len(frags) : frags[i].last <=> (i = Len(frags))
\* All the peer's fragments have arrived.
FragsDelivered == Len(wire) >= Len(EncodeFrags(frags, 1))

\* C7: when the fragments f1..fn of one record (only fn flagged last) have arrived,
\* recvrecord returns the payloads concatenated in arrival order, with no header
\* byte among them, and has read up to the end of fn and not beyond.
C7_Reassembly ==
    (OneRecord /\ FragsDelivered /\ rpc = "done" /\ ~ReadFailed)
        => /\ rresult = [tag |-> "Ok", v |-> ConcatPayloads(frags, Len(frags))]
           /\ rpos = Len(EncodeFrags(frags, 1))

C7_Witness ==
    /\ frags = <<[last |-> FALSE, len |-> 2], [last |-> TRUE, len |-> 2]>>
    /\ trailing = <<9>>
    /\ Len(wire) = 13
    /\ rresult = [tag |-> "Ok", v |-> <<17, 18, 33, 34>>]
    /\ rpos = 12

\* C8: every fragment recv_fragment returns has exactly the len = header &
\* 0x7FFF_FFFF bytes its header declared: when the stream ends inside a payload
\* the receive fails and never returns Ok with a shorter fragment or record.
C8_ExactLength ==
    /\ (rpc = "header" /\ nfrags > 0) => Len(fragment) = header_len(header)
    /\ rresult.tag = "Ok" => Len(fragment) = header_len(header)
    /\ (writer = "peer" /\ rresult.tag = "Ok")
           => rresult.v = ConcatPayloads(frags, nfrags)

\* C9: recvrecord returns Ok only after recv_fragment has read a header with bit 31
\* set; a header read that finds fewer than 4 bytes before the end of the stream
\* (none at all after a non-last fragment included) fails with the EOF error, and
\* an error carries no record.
C9_OkOnlyAfterLast ==
    /\ rresult.tag = "Ok"
           => /\ nfrags > 0 /\ Len(buffer) = 4 /\ header = buffer
              /\ header[1] >= 128
              /\ (writer = "peer" => frags[nfrags].last)
    /\ (rpc = "done" /\ Len(buffer) < 4 /\ ~ReadFailed)
           => /\ rresult = EofError
              /\ closed /\ rpos = Len(wire)
    /\ rresult = EofError => (closed /\ rpos = Len(wire) /\ Len(buffer) < 4)
    /\ rresult.tag = "Err" => DOMAIN rresult = {"tag", "err"}

C9_Witness ==
    /\ writer = "peer"
    /\ Len(frags) = 1 /\ nfrags = 1 /\ ~frags[1].last /\ frags[1].len = 2
    /\ record = <<17, 18>>
    /\ buffer = <<>>
    /\ rresult = EofError

\* C10: a fragment of length zero is read as a fragment, not as the end of the
\* stream: it adds no byte to the record and consumes none; if it is not last the
\* receive goes on to the next header, and if it is last the receive returns Ok
\* with the record as accumulated (possibly empty).
C10_ZeroLengthFragment ==
    [][(rpc = "body" /\ header_len(header) = 0 /\ rpc' # "body")
          => /\ fragment' = <<>>
             /\ record' = record
             /\ rpos' = rpos
             /\ nfrags' = nfrags + 1
             /\ IF header[1] >= 128
                THEN rpc' = "done" /\ rresult' = [tag |-> "Ok", v |-> record]
                ELSE rpc' = "header" /\ rresult' = Nothing]_vars

C10_Witness ==
    /\ writer = "peer"
    /\ frags = <<[last |-> FALSE, len |-> 0], [last |-> TRUE, len |-> 0]>>
    /\ nfrags = 2
    /\ rresult = [tag |-> "Ok", v |-> <<>>]

\* C11: send fails with an IO error whenever the socket accepts fewer bytes than
\* offered for the header or the payload; it never returns Ok after only a part
\* of the 4 header bytes or of the payload has been written.
C11_PartialWriteFails ==
    (writer = "self" /\ sresult.tag = "Ok")
        => /\ sresult.v = 4 + Len(srecord)
           /\ Len(wire) = 4 + Len(srecord)

(***************************************************************************)
(* Encoders.  A Vec<u8> buffer never fails a write, so an encoder fails    *)
(* only where the code converts bytes to a String.                         *)
(***************************************************************************)
Ok(v) == [tag |-> "Ok", v |-> v]
Failed(e) == [tag |-> "Err", err |-> e]

\* n zero bytes
Zeros(n) == [j \in 1..n |-> 0]

\* A variant of pack_string that writes the padded length as the length prefix.
pack_string_padded_len(s) ==
    LET bytes_len == Len(s)
        pad       == (4 - (bytes_len % 4)) % 4
    IN  WordOf(bytes_len + pad) \o s \o Zeros(pad)

\* A variant of pack_string that leaves out the outer % 4 of the pad.
pack_string_pad4(s) ==
    LET bytes_len == Len(s)
        pad       == 4 - (bytes_len % 4)
    IN  WordOf(bytes_len) \o s \o Zeros(pad)

\* pack_string(s.as_bytes(), buffer): what it appends to the buffer.
pack_string(s) ==
    LET bytes_len == Len(s)
        pad       == (4 - (bytes_len % 4)) % 4
    IN  WordOf(bytes_len) \o s \o Zeros(pad)

\* The orders in which a HashMap with the key set K may iterate.
IterOrders(K) ==
    {o \in [1..Cardinality(K) -> K] : \A i, j \in DOMAIN o : i # j => o[i] # o[j]}

\* One entry as serialize_dict writes it: key_len, value_len, key, NUL, value.
EntryBytes(key, value) ==
    WordOf(Len(key)) \o WordOf(Len(value)) \o key \o <<0>> \o value

RECURSIVE EntriesBytes(_, _, _)
\* for (key, value) in dict.iter(), from the i-th entry on, iterating in order.
EntriesBytes(dict, order, i) ==
    IF i > Len(order) THEN <<>>
    ELSE EntryBytes(order[i], dict[order[i]]) \o EntriesBytes(dict, order, i + 1)

\* The buffer serialize_dict builds: nothing for an empty dict, else the count and
\* the entries.
DictBuffer(dict, order) ==
    IF DOMAIN dict = {} THEN <<>>
    ELSE WordOf(Cardinality(DOMAIN dict)) \o EntriesBytes(dict, order, 1)

\* serialize_dict(dict): the buffer, returned through String::from_utf8.
serialize_dict(dict, order) ==
    IF from_utf8_ok(DictBuffer(dict, order))
    THEN Ok(DictBuffer(dict, order))
    ELSE Failed(FromUtf8Error)

(***************************************************************************)
(* Dictionaries through serialize_dict and deserialize_dict, as in         *)
(* tests::serialize_dictionary_test, and wire blobs through                *)
(* deserialize_dict alone.                                                 *)
(***************************************************************************)
MaxEntries == 2

\* "k", "a", and "a" after a NUL character
DictKeys == {<<107>>, <<97>>, <<0, 97>>}
\* no bytes, "v", a byte that is not UTF-8, two small bytes
DictValues == {<<>>, <<118>>, <<255>>, <<0, 1>>}
Dicts ==
    UNION {[K -> DictValues] : K \in {K \in SUBSET DictKeys : Cardinality(K) <= MaxEntries}}

DictInputs == {[kind |-> "dict", dict |-> d] : d \in Dicts}
\* A blob on the wire: the entries of a dict in some order.
BlobInputs ==
    UNION {{[kind |-> "blob", dict |-> d, bytes |-> DictBuffer(d, o)] :
               o \in IterOrders(DOMAIN d)} : d \in Dicts}

RECURSIVE WireEntriesBytes(_, _)
\* The entries of a wire blob one after the other, from the i-th on.
WireEntriesBytes(entries, i) ==
    IF i > Len(entries) THEN <<>>
    ELSE EntryBytes(entries[i].key, entries[i].value) \o WireEntriesBytes(entries, i + 1)

\* A blob as a peer may send it: a declared count, as many entries (keys may
\* repeat), and bytes after the last of them.
WireBytes(count, entries, rest) == WordOf(count) \o WireEntriesBytes(entries, 1) \o rest

WireInputs ==
    {[kind |-> "wire", entries |-> e, rest |-> r, bytes |-> WireBytes(Len(e), e, r)] :
         e \in SeqsUpTo([key : DictKeys, value : {<<118>>, <<0, 1>>}], MaxEntries),
         r \in {<<>>, <<9>>, EntryBytes(<<107>>, <<255>>)}}

InitDict ==
    /\ ReplyIdle
    /\ TransportIdle
    /\ QuotaIdle
    /\ cin \in DictInputs \cup BlobInputs \cup WireInputs
    /\ cpc = "ready"
    /\ enc = Nothing
    /\ dec = Nothing

\* let mut dict_bytes = serialize_dict(&hm).unwrap().into_bytes();
SerializeDict ==
    /\ cin.kind = "dict"
    /\ cpc = "ready"
    /\ \E o \in IterOrders(DOMAIN cin.dict) : enc' = serialize_dict(cin.dict, o)
    /\ cpc' = "packed"
    /\ UNCHANGED <<pvars, tvars, qvars, cin, dec>>

\* deserialize_dict(&mut cursor), the cursor over the serialized bytes or over a
\* blob from the wire.
DeserializeDict ==
    /\ \/ /\ cin.kind = "dict"
          /\ cpc = "packed"
          /\ enc.tag = "Ok"
          /\ dec' = deserialize_dict(enc.v, 0)
       \/ /\ cin.kind \in {"blob", "wire"}
          /\ cpc = "ready"
          /\ dec' = deserialize_dict(cin.bytes, 0)
    /\ cpc' = "done"
    /\ UNCHANGED <<pvars, tvars, qvars, cin, enc>>

NextDict == SerializeDict \/ DeserializeDict

SpecDict == InitDict /\ [][NextDict]_vars

(***************************************************************************)
(* Claims about dictionaries.                                              *)
(***************************************************************************)
NulFree(s) == \A i \in DOMAIN s : s[i] # 0

\* C12: for every dict whose keys hold no NUL byte, whatever bytes its values
\* hold, serialize_dict succeeds and deserialize_dict of its bytes returns a dict
\* equal to it.
C12_DictRoundTrip ==
    (cin.kind = "dict" /\ \A k \in DOMAIN cin.dict : NulFree(k))
        => /\ cpc \in {"packed", "done"} => enc.tag = "Ok"
           /\ cpc = "done" => (dec.tag = "Ok" /\ dec.v = cin.dict)

\* C13: serialize_dict of the empty dict gives zero bytes, and deserialize_dict of
\* a zero-length input returns Ok with the empty dict, having read nothing.
C13_EmptyDict ==
    /\ (cin.kind = "dict" /\ DOMAIN cin.dict = {} /\ cpc # "ready") => enc = Ok(<<>>)
    /\ (cin.kind = "blob" /\ cin.bytes = <<>> /\ cpc = "done")
           => dec = [tag |-> "Ok", v |-> EmptyMap, pos |-> 0]

RECURSIVE EntriesSize(_, _)
\* The sum over the entries with keys in K of 8 + key_len + 1 + value_len.
EntriesSize(dict, K) ==
    IF K = {} THEN 0
    ELSE LET k == CHOOSE x \in K : TRUE
         IN  8 + Len(k) + 1 + Len(dict[k]) + EntriesSize(dict, K \ {k})

\* C14: for every dict that is not empty serialize_dict emits the count, then for
\* each entry key_len, value_len, the key, one NUL, the value, with no padding:
\* 4 + the sum over the entries of (8 + key_len + 1 + value_len) bytes in all.
C14_DictLayout ==
    (cin.kind = "dict" /\ DOMAIN cin.dict # {} /\ cpc # "ready")
        => /\ enc.tag = "Ok"
           /\ \E o \in IterOrders(DOMAIN cin.dict) :
                  enc.v = WordOf(Cardinality(DOMAIN cin.dict))
                              \o EntriesBytes(cin.dict, o, 1)
           /\ Len(enc.v) = 4 + EntriesSize(cin.dict, DOMAIN cin.dict)

\* C15: the order of the entries in a wire blob does not matter: every
\* permutation of a dict's entries deserializes to the same dict.
C15_OrderInsignificant ==
    (cin.kind = "blob" /\ cpc = "done")
        => \A o \in IterOrders(DOMAIN cin.dict) :
               deserialize_dict(DictBuffer(cin.dict, o), 0) = dec

(***************************************************************************)
(* Strings through pack_string and unpack_string, as                       *)
(* GlusterCliFsmLogRequest packs and unpacks its name.                     *)
(***************************************************************************)
MaxStrLen == 4

\* "a", "b", NUL, and the two bytes of a two-byte UTF-8 character
StrAlphabet == {97, 98, 0, 195, 169}
\* A &str is valid UTF-8.
Strings == {s \in SeqsUpTo(StrAlphabet, MaxStrLen) : from_utf8_ok(s)}

InitString ==
    /\ ReplyIdle
    /\ TransportIdle
    /\ QuotaIdle
    /\ cin \in {[kind |-> "string", s |-> s] : s \in Strings}
    /\ cpc = "ready"
    /\ enc = Nothing
    /\ dec = Nothing

\* GlusterCliFsmLogRequest::pack: pack_string(&self.name, &mut buffer)
FsmLogRequestPack ==
    /\ cin.kind = "string"
    /\ cpc = "ready"
    /\ enc' = Ok(pack_string(cin.s))
    /\ cpc' = "packed"
    /\ UNCHANGED <<pvars, tvars, qvars, cin, dec>>

\* GlusterCliFsmLogRequest::unpack: the size, then unpack_string(data, size)
FsmLogRequestUnpack ==
    /\ cin.kind = "string"
    /\ cpc = "packed"
    /\ LET size == read_u32(enc.v, 0)
       IN  dec' = IF size.tag = "Err" THEN size
                  ELSE unpack_string(enc.v, size.pos, size.v)
    /\ cpc' = "done"
    /\ UNCHANGED <<pvars, tvars, qvars, cin, enc>>

NextString == FsmLogRequestPack \/ FsmLogRequestUnpack

SpecString == InitString /\ [][NextString]_vars

\* C16: for every string s, reading the u32 length prefix of pack_string(s) and
\* calling unpack_string with that size returns exactly s.
C16_StringRoundTrip ==
    (cin.kind = "string" /\ cpc = "done") => (dec.tag = "Ok" /\ dec.v = cin.s)

C16_Witness ==
    /\ cin.kind = "string"
    /\ cin.s = <<97, 195, 169>>
    /\ cpc = "done"
    /\ dec.tag = "Ok" /\ dec.v = <<97, 195, 169>> /\ dec.pos = 7
    /\ Len(enc.v) = 8

\* C17: pack_string(s) writes the byte length of s as a big-endian u32, the bytes
\* of s, then p = (4 - len mod 4) mod 4 zero bytes: p is in 0..3, the bytes after
\* the length field are a multiple of 4, and the empty string is four zero bytes.
C17_PackStringLayout ==
    (cin.kind = "string" /\ cpc \in {"packed", "done"})
        => /\ enc.tag = "Ok"
           /\ LET b == enc.v
                  n == Len(cin.s)
                  p == Len(b) - 4 - n
              IN  /\ Len(b) >= 4 + n
                  /\ <<b[1], b[2], b[3], b[4]>> = <<0, 0, 0, n>>
                  /\ \A i \in 1..n : b[4 + i] = cin.s[i]
                  /\ \A i \in (4 + n + 1)..Len(b) : b[i] = 0
                  /\ p \in 0..3
                  /\ (Len(b) - 4) % 4 = 0
                  /\ p = (4 - (n % 4)) % 4
                  /\ (n = 0 => b = <<0, 0, 0, 0>>)

C17_Witness ==
    /\ cin.kind = "string"
    /\ cin.s = <<>>
    /\ cpc = "packed"
    /\ enc = Ok(<<0, 0, 0, 0>>)

(***************************************************************************)
(* Typed messages: each struct's pack and unpack.  A message is a record   *)
(* with its type in the field t; order is the iteration order of its dict. *)
(***************************************************************************)
\* pack_string(&dict_string, &mut buffer) after serialize_dict(&self.dict)?,
\* appended to the bytes packed before.
PackDictAfter(before, dict, order) ==
    LET dict_string == serialize_dict(dict, order)
    IN  IF dict_string.tag = "Err" THEN dict_string
        ELSE Ok(before \o pack_string(dict_string.v))

\* GlusterCliResponse::pack
CliResponsePack(m, order) ==
    PackDictAfter(I32Word(m.op_ret) \o I32Word(m.op_errno) \o pack_string(m.op_errstr),
                  m.dict, order)

\* GlusterCliFsmLogReponse::pack
FsmLogReponsePack(m) ==
    Ok(I32Word(m.op_ret) \o I32Word(m.op_errno) \o pack_string(m.op_errstr)
       \o pack_string(m.fsm_log))

\* GlusterCliMountRequest::pack
MountRequestPack(m, order) == PackDictAfter(pack_string(m.label), m.dict, order)

\* GlusterCliPeerListRequest::pack
PeerListRequestPack(m, order) == PackDictAfter(I32Word(m.flags), m.dict, order)

\* let size = data.read_u32()?; let x = unpack_string(data, size)?;
ReadString(d, p) ==
    LET size == read_u32(d, p)
    IN  IF size.tag = "Err" THEN size ELSE unpack_string(d, size.pos, size.v)

\* let size = data.read_u32()?; let mut s = unpack_dict_bytes(data, size)?;
\* deserialize_dict(&mut Cursor::new(&mut s[..]))?  The outer cursor stays after
\* the blob.
ReadDictBytes(d, p) ==
    LET size == read_u32(d, p)
    IN  IF size.tag = "Err" THEN size
        ELSE LET s == unpack_dict_bytes(d, size.pos, size.v)
             IN  IF s.tag = "Err" THEN s
                 ELSE LET dict == deserialize_dict(s.v, 0)
                      IN  IF dict.tag = "Err" THEN Err(dict.err, s.pos)
                          ELSE [tag |-> "Ok", v |-> dict.v, pos |-> s.pos]

\* The same with unpack_string(data, size)?.into_bytes() for the blob.
ReadDictString(d, p) ==
    LET s == ReadString(d, p)
    IN  IF s.tag = "Err" THEN s
        ELSE LET dict == deserialize_dict(s.v, 0)
             IN  IF dict.tag = "Err" THEN Err(dict.err, s.pos)
                 ELSE [tag |-> "Ok", v |-> dict.v, pos |-> s.pos]

\* let op_ret = data.read_i32()?; let op_errno = data.read_i32()?;
ReadOpRetErrno(d, p) ==
    LET op_ret == read_i32(d, p)
    IN  IF op_ret.tag = "Err" THEN op_ret
        ELSE LET op_errno == read_i32(d, op_ret.pos)
             IN  IF op_errno.tag = "Err" THEN op_errno
                 ELSE [tag |-> "Ok", op_ret |-> op_ret.v, op_errno |-> op_errno.v,
                       pos |-> op_errno.pos]

\* GlusterCliResponse::unpack
CliResponseUnpack(d, p) ==
    LET h == ReadOpRetErrno(d, p)
    IN  IF h.tag = "Err" THEN h
        ELSE LET op_errstr == ReadString(d, h.pos)
             IN  IF op_errstr.tag = "Err" THEN op_errstr
                 ELSE LET dict == ReadDictBytes(d, op_errstr.pos)
                      IN  IF dict.tag = "Err" THEN dict
                          ELSE [tag |-> "Ok", pos |-> dict.pos,
                                v |-> [t |-> "GlusterCliResponse",
                                       op_ret |-> h.op_ret, op_errno |-> h.op_errno,
                                       op_errstr |-> op_errstr.v, dict |-> dict.v]]

\* GlusterCliFsmLogReponse::unpack
FsmLogReponseUnpack(d, p) ==
    LET h == ReadOpRetErrno(d, p)
    IN  IF h.tag = "Err" THEN h
        ELSE LET op_errstr == ReadString(d, h.pos)
             IN  IF op_errstr.tag = "Err" THEN op_errstr
                 ELSE LET fsm_log == ReadString(d, op_errstr.pos)
                      IN  IF fsm_log.tag = "Err" THEN fsm_log
                          ELSE [tag |-> "Ok", pos |-> fsm_log.pos,
                                v |-> [t |-> "GlusterCliFsmLogReponse",
                                       op_ret |-> h.op_ret, op_errno |-> h.op_errno,
                                       op_errstr |-> op_errstr.v, fsm_log |-> fsm_log.v]]

\* GlusterCliMountRequest::unpack
MountRequestUnpack(d, p) ==
    LET label == ReadString(d, p)
    IN  IF label.tag = "Err" THEN label
        ELSE LET dict == ReadDictString(d, label.pos)
             IN  IF dict.tag = "Err" THEN dict
                 ELSE [tag |-> "Ok", pos |-> dict.pos,
                       v |-> [t |-> "GlusterCliMountRequest",
                              label |-> label.v, dict |-> dict.v]]

\* GlusterCliPeerListRequest::unpack
PeerListRequestUnpack(d, p) ==
    LET flags == read_i32(d, p)
    IN  IF flags.tag = "Err" THEN flags
        ELSE LET dict == ReadDictBytes(d, flags.pos)
             IN  IF dict.tag = "Err" THEN dict
                 ELSE [tag |-> "Ok", pos |-> dict.pos,
                       v |-> [t |-> "GlusterCliPeerListRequest",
                              flags |-> flags.v, dict |-> dict.v]]

\* The message's own pack.
MessagePack(m, order) ==
    CASE m.t = "GlusterCliResponse"        -> CliResponsePack(m, order)
      [] m.t = "GlusterCliFsmLogReponse"   -> FsmLogReponsePack(m)
      [] m.t = "GlusterCliMountRequest"    -> MountRequestPack(m, order)
      [] m.t = "GlusterCliPeerListRequest" -> PeerListRequestPack(m, order)

\* The unpack of the message's type.
MessageUnpack(t, d, p) ==
    CASE t = "GlusterCliResponse"        -> CliResponseUnpack(d, p)
      [] t = "GlusterCliFsmLogReponse"   -> FsmLogReponseUnpack(d, p)
      [] t = "GlusterCliMountRequest"    -> MountRequestUnpack(d, p)
      [] t = "GlusterCliPeerListRequest" -> PeerListRequestUnpack(d, p)

\* The message values tried: strings of 0, 1 and 4 bytes, the empty dict and a
\* dict of one entry "k" -> "v".
MsgStrings == {<<>>, <<97>>, <<97, 98, 99, 100>>}
MsgDicts == {EmptyMap, <<107>> :> <<118>>}
MsgInts == {0, -2}
Messages ==
    {[t |-> "GlusterCliResponse", op_ret |-> r, op_errno |-> e, op_errstr |-> s, dict |-> d] :
        r \in MsgInts, e \in MsgInts, s \in MsgStrings, d \in MsgDicts}
    \cup {[t |-> "GlusterCliFsmLogReponse", op_ret |-> r, op_errno |-> e, op_errstr |-> s,
           fsm_log |-> l] : r \in MsgInts, e \in MsgInts, s \in MsgStrings, l \in MsgStrings}
    \cup {[t |-> "GlusterCliMountRequest", label |-> s, dict |-> d] :
            s \in MsgStrings, d \in MsgDicts}
    \cup {[t |-> "GlusterCliPeerListRequest", flags |-> f, dict |-> d] :
            f \in {2}, d \in MsgDicts}

\* The dict of a message that has one.
MessageDict(m) == IF m.t = "GlusterCliFsmLogReponse" THEN EmptyMap ELSE m.dict

InitMessage ==
    /\ ReplyIdle
    /\ TransportIdle
    /\ QuotaIdle
    /\ cin \in {[kind |-> "message", m |-> m] : m \in Messages}
    /\ cpc = "ready"
    /\ enc = Nothing
    /\ dec = Nothing

\* m.pack()
PackMessage ==
    /\ cin.kind = "message"
    /\ cpc = "ready"
    /\ \E o \in IterOrders(DOMAIN MessageDict(cin.m)) : enc' = MessagePack(cin.m, o)
    /\ cpc' = "packed"
    /\ UNCHANGED <<pvars, tvars, qvars, cin, dec>>

\* T::unpack(&mut Cursor::new(bytes)) on the packed bytes
UnpackMessage ==
    /\ cin.kind = "message"
    /\ cpc = "packed"
    /\ enc.tag = "Ok"
    /\ dec' = MessageUnpack(cin.m.t, enc.v, 0)
    /\ cpc' = "done"
    /\ UNCHANGED <<pvars, tvars, qvars, cin, enc>>

NextMessage == PackMessage \/ UnpackMessage

SpecMessage == InitMessage /\ [][NextMessage]_vars

\* C18: each typed message's pack and unpack handle padding alike: for every
\* message value m (a string field followed by another field, an embedded dict,
\* the empty dict), unpack(pack(m)) succeeds and equals m, for string lengths that
\* are multiples of 4 and for those that are not.
C18_MessageRoundTrip ==
    cin.kind = "message"
        => /\ cpc \in {"packed", "done"} => enc.tag = "Ok"
           /\ cpc = "done" => (dec.tag = "Ok" /\ dec.v = cin.m)

(***************************************************************************)
(* Building a call: the verifier and the credential are packed, then the   *)
(* call header, then the request is appended, as in tests::list_peers.     *)
(***************************************************************************)
GLUSTER_CLI_PROGRAM_NUMBER == 1238463
GLUSTER_V2_CRED_FLAVOR == 390039
GLUSTER_QUOTA_PROGRAM_NUMBER == 29852134
RPC_VERSION == 2
CALL == 0
GlusterCliListFriends == 3
GlusterAggregatorGetlimit == 2

\* self.flavor.clone() as i32
AuthFlavorAsI32(flavor) ==
    CASE flavor = "AuthNull"  -> 0
      [] flavor = "AuthUnix"  -> 1
      [] flavor = "AuthShort" -> 2
      [] flavor = "AuthDes"   -> 3

\* GlusterAuth::pack
GlusterAuthPack(auth) == I32Word(AuthFlavorAsI32(auth.flavor)) \o auth.stuff

\* A variant of GlusterCred::pack that writes no groups field when there are no
\* groups.
GlusterCredPack_no_empty_groups(c) ==
    I32Word(c.flavor) \o WordOf(24) \o c.pid \o c.uid \o c.gid
    \o (IF c.groups = <<>> THEN <<>> ELSE pack_string(c.groups))
    \o WordOf(4) \o c.lock_owner

\* GlusterCred::pack: the flavor, 24, pid, uid, gid, the groups as a string, 4,
\* the lock_owner bytes.
GlusterCredPack(c) ==
    I32Word(c.flavor) \o WordOf(24) \o c.pid \o c.uid \o c.gid
    \o pack_string(c.groups)
    \o WordOf(4) \o c.lock_owner

\* A variant of pack_callheader that writes the caller's vers where the RPC version
\* goes.
pack_callheader_vers(xid, prog, vers, proc_num, cred_flavor, verf) ==
    xid \o I32Word(CALL) \o vers \o I32Word(prog) \o vers \o proc_num
    \o cred_flavor \o verf

\* pack_callheader(xid, prog, vers, proc_num, cred_flavor, verf); xid, vers and
\* proc_num are u32 words.
pack_callheader(xid, prog, vers, proc_num, cred_flavor, verf) ==
    xid \o I32Word(CALL) \o WordOf(RPC_VERSION) \o I32Word(prog) \o vers \o proc_num
    \o cred_flavor \o verf

\* enum GlusterAggregatorCommand: the variants and their discriminants.
GlusterAggregatorCommand ==
    [GlusterAggregatorNull |-> 0, GlusterAggregatorLookup |-> 1,
     GlusterAggregatorGetlimit |-> GlusterAggregatorGetlimit,
     GlusterAggregatorMaxvalue |-> 3]

\* enum GlusterCliCommand: the variants and their discriminants.
GlusterCliCommand ==
    [GlusterCliNull |-> 0, GlusterCliProbe |-> 1, GlusterCliDeprobe |-> 2,
     GlusterCliListFriends |-> GlusterCliListFriends, GlusterCliCreateVolume |-> 4,
     GlusterCliGetVolume |-> 5, GlusterCliGetNextVolume |-> 6,
     GlusterCliDeleteVolume |-> 7, GlusterCliStartVolume |-> 8,
     GlusterCliStopVolume |-> 9, GlusterCliRenameVolume |-> 10,
     GlusterCliDefragVolume |-> 11, GlusterCliSetVolume |-> 12,
     GlusterCliAddBrick |-> 13, GlusterCliRemoveBrick |-> 14, GlusterCliBrick |-> 15,
     GlusterCliLogRotate |-> 16, GlusterCliGetspec |-> 17,
     GlusterCliPmapPortbybrick |-> 18, GlusterCliSyncVolume |-> 19,
     GlusterCliResetVolume |-> 20, GlusterCliFsmLog |-> 21, GlusterCliGsyncSet |-> 22,
     GlusterCliProfileVolume |-> 23, GlusterCliQuota |-> 24,
     GlusterCliTopVolume |-> 25, GlusterCliGetwd |-> 26, GlusterCliStatusVolume |-> 27,
     GlusterCliStatusAll |-> 28, GlusterCliMount |-> 29, GlusterCliUmount |-> 30,
     GlusterCliHealVolume |-> 31, GlusterCliStatedumpVolume |-> 32,
     GlusterCliListVolume |-> 33, GlusterCliClrlocksVolume |-> 34,
     GlusterCliUuidReset |-> 35, GlusterCliUuidGet |-> 36, GlusterCliCopyFile |-> 37,
     GlusterCliSysExec |-> 38, GlusterCliSnap |-> 39, GlusterCliBarrierVolume |-> 40,
     GlusterCliGetVolOpt |-> 41, GlusterCliGanesha |-> 42, GlusterCliBitrot |-> 43,
     GlusterCliAttachTier |-> 44, GlusterCliDetachTier |-> 45,
     GlusterCliMaxvalue |-> 46]

\* pack_quota_callheader: proc_num as u32 of a GlusterAggregatorCommand
pack_quota_callheader(xid, prog, vers, proc_num, cred_flavor, verf) ==
    pack_callheader(xid, prog, vers, WordOf(GlusterAggregatorCommand[proc_num]),
                    cred_flavor, verf)

\* A variant of pack_cli_callheader that numbers the variants from 1.
pack_cli_callheader_from_one(xid, prog, vers, proc_num, cred_flavor, verf) ==
    pack_callheader(xid, prog, vers, WordOf(GlusterCliCommand[proc_num] + 1),
                    cred_flavor, verf)

\* pack_cli_callheader: proc_num as u32 of a GlusterCliCommand
pack_cli_callheader(xid, prog, vers, proc_num, cred_flavor, verf) ==
    pack_callheader(xid, prog, vers, WordOf(GlusterCliCommand[proc_num]),
                    cred_flavor, verf)

\* The calls tried.
CallVersions == {<<0, 0, 0, 2>>, <<0, 0, 0, 1>>}
CallPrograms == {GLUSTER_CLI_PROGRAM_NUMBER, GLUSTER_QUOTA_PROGRAM_NUMBER, -1}
CallProcedures ==
    {[enum |-> "GlusterCliCommand", name |-> n] : n \in DOMAIN GlusterCliCommand}
    \cup {[enum |-> "GlusterAggregatorCommand", name |-> n] :
              n \in DOMAIN GlusterAggregatorCommand}
Creds ==
    [flavor : {GLUSTER_V2_CRED_FLAVOR}, pid : {ZeroWord}, uid : {ZeroWord},
     gid : {ZeroWord, <<0, 0, 3, 232>>}, groups : {<<>>, <<97>>},
     lock_owner : {ZeroWord, <<1, 2>>}]
Verfs == {[flavor |-> "AuthNull", stuff |-> ZeroWord], [flavor |-> "AuthUnix", stuff |-> <<>>]}
Requests == [t : {"GlusterCliPeerListRequest"}, flags : {2}, dict : MsgDicts]
Calls ==
    [kind : {"call"}, xid : Xids, prog : CallPrograms, vers : CallVersions,
     proc : CallProcedures, creds : Creds, verf : Verfs, request : Requests]

\* The call tests::list_peers builds.
ListFriendsCall ==
    [kind |-> "call", xid |-> <<0, 0, 0, 1>>, prog |-> GLUSTER_CLI_PROGRAM_NUMBER,
     vers |-> WordOf(RPC_VERSION),
     proc |-> [enum |-> "GlusterCliCommand", name |-> "GlusterCliListFriends"],
     creds |-> [flavor |-> GLUSTER_V2_CRED_FLAVOR, pid |-> ZeroWord, uid |-> ZeroWord,
                gid |-> ZeroWord, groups |-> <<>>, lock_owner |-> ZeroWord],
     verf |-> [flavor |-> "AuthNull", stuff |-> ZeroWord],
     request |-> [t |-> "GlusterCliPeerListRequest", flags |-> 2, dict |-> EmptyMap]]

\* packed_call_result_bytes of tests::list_peers
packed_call_result_bytes ==
    <<0, 0, 0, 1>> \o <<0, 0, 0, 0>> \o <<0, 0, 0, 2>> \o <<0, 18, 229, 191>>
    \o <<0, 0, 0, 2>> \o <<0, 0, 0, 3>> \o <<0, 5, 243, 151>> \o <<0, 0, 0, 24>>
    \o <<0, 0, 0, 0, 0, 0, 0, 0, 0, 0, 0, 0, 0, 0>>
    \o <<0, 0, 0, 0, 0, 4, 0, 0, 0, 0, 0, 0, 0, 0>>
    \o <<0, 0, 0, 0>>
    \o <<0, 0, 0, 2, 0, 0, 0, 0>>

InitCall ==
    /\ ReplyIdle
    /\ TransportIdle
    /\ QuotaIdle
    /\ cin \in Calls
    /\ cpc = "ready"
    /\ enc = Nothing
    /\ dec = Nothing

\* let verf_bytes = verf.pack().unwrap(); let cred_bytes = creds.pack().unwrap();
PackVerfAndCreds ==
    /\ cin.kind = "call"
    /\ cpc = "ready"
    /\ enc' = [tag |-> "Ok", verf_bytes |-> GlusterAuthPack(cin.verf),
               cred_bytes |-> GlusterCredPack(cin.creds)]
    /\ cpc' = "creds"
    /\ UNCHANGED <<pvars, tvars, qvars, cin, dec>>

\* let mut call_bytes = pack_cli_callheader(xid, prog, vers, proc, cred_bytes,
\* verf_bytes).unwrap(); get_quota_usage calls pack_quota_callheader the same way.
PackCallheader ==
    /\ cin.kind = "call"
    /\ cpc = "creds"
    /\ enc' = [tag |-> "Ok", verf_bytes |-> enc.verf_bytes, cred_bytes |-> enc.cred_bytes,
               call_bytes |->
                   IF cin.proc.enum = "GlusterCliCommand"
                   THEN pack_cli_callheader(cin.xid, cin.prog, cin.vers, cin.proc.name,
                                            enc.cred_bytes, enc.verf_bytes)
                   ELSE pack_quota_callheader(cin.xid, cin.prog, cin.vers, cin.proc.name,
                                              enc.cred_bytes, enc.verf_bytes)]
    /\ cpc' = "header"
    /\ UNCHANGED <<pvars, tvars, qvars, cin, dec>>

\* let peer_bytes = peer_request.pack().unwrap(); call_bytes.push(byte) for each
AppendRequest ==
    /\ cin.kind = "call"
    /\ cpc = "header"
    /\ \E o \in IterOrders(DOMAIN cin.request.dict) :
           LET peer_bytes == PeerListRequestPack(cin.request, o)
           IN  /\ peer_bytes.tag = "Ok"
               /\ enc' = [enc EXCEPT !.call_bytes = @ \o peer_bytes.v]
    /\ cpc' = "done"
    /\ UNCHANGED <<pvars, tvars, qvars, cin, dec>>

NextCall == PackVerfAndCreds \/ PackCallheader \/ AppendRequest

SpecCall == InitCall /\ [][NextCall]_vars

\* The discriminant of the command passed.
ProcNum(p) ==
    IF p.enum = "GlusterCliCommand" THEN GlusterCliCommand[p.name]
    ELSE GlusterAggregatorCommand[p.name]

\* C19: the call header is xid, msg_type CALL (0), rpc_version 2, program,
\* program_version, procedure, each a big-endian word, then the credential bytes
\* and the verifier bytes unchanged: 24 + len(credential) + len(verifier) bytes,
\* with rpc_version 2 whatever the input.
C19_CallHeaderLayout ==
    (cin.kind = "call" /\ cpc = "header")
        => LET h == enc.call_bytes
               c == Len(enc.cred_bytes)
               v == Len(enc.verf_bytes)
           IN  /\ Len(h) = 24 + c + v
               /\ SubSeq(h, 1, 4) = cin.xid
               /\ SubSeq(h, 5, 8) = <<0, 0, 0, 0>>
               /\ SubSeq(h, 9, 12) = <<0, 0, 0, 2>>
               /\ I32Val(SubSeq(h, 13, 16)) = cin.prog
               /\ SubSeq(h, 17, 20) = cin.vers
               /\ SubSeq(h, 21, 24) = <<0, 0, 0, ProcNum(cin.proc)>>
               /\ SubSeq(h, 25, 24 + c) = enc.cred_bytes
               /\ SubSeq(h, 25 + c, 24 + c + v) = enc.verf_bytes

C19_Witness ==
    /\ cin.kind = "call"
    /\ cpc = "header"
    /\ cin.vers = <<0, 0, 0, 1>>
    /\ cin.prog = -1
    /\ cin.creds.groups = <<97>> /\ cin.creds.lock_owner = <<1, 2>>
    /\ cin.verf.stuff = <<>>
    /\ Len(enc.cred_bytes) = 34 /\ Len(enc.verf_bytes) = 4
    /\ Len(enc.call_bytes) = 62

\* The call of tests::list_peers has been built.
ListFriendsBuilt == cin = ListFriendsCall /\ cpc = "done"

\* C20 as stated: the list-friends call (xid 1, program 1238463, version 2,
\* procedure 3, AUTH_NULL verifier, v2 credential, empty request dict) packs to the
\* bytes beginning 00 00 00 01 00 00 00 00 00 00 00 02 00 12 e5 bf, 56 bytes in
\* all.
C20_ListFriends56 ==
    ListFriendsBuilt
        => /\ SubSeq(enc.call_bytes, 1, 16)
                  = <<0, 0, 0, 1, 0, 0, 0, 0, 0, 0, 0, 2, 0, 18, 229, 191>>
           /\ Len(enc.call_bytes) = 56
           /\ enc.call_bytes = packed_call_result_bytes

\* C20, amended: the list-friends call packs to the captured fixture, which begins
\* 00 00 00 01 00 00 00 00 00 00 00 02 00 12 e5 bf and is 72 bytes long: 24 of
\* header, 32 of credential, 8 of verifier, 8 of request.
C20_ListFriendsFixture ==
    ListFriendsBuilt
        => /\ enc.call_bytes = packed_call_result_bytes
           /\ SubSeq(enc.call_bytes, 1, 16)
                  = <<0, 0, 0, 1, 0, 0, 0, 0, 0, 0, 0, 2, 0, 18, 229, 191>>
           /\ Len(enc.call_bytes) = 72
           /\ Len(enc.cred_bytes) = 32 /\ Len(enc.verf_bytes) = 8

C20_Witness ==
    /\ ListFriendsBuilt
    /\ Len(enc.call_bytes) = 72
    /\ enc.call_bytes[68] = 2

\* C21: the procedure number at bytes 20..23 of the header built by
\* pack_cli_callheader or pack_quota_callheader is the discriminant of the command
\* passed; the CLI discriminants are exactly 0..46 and the aggregator ones exactly
\* 0..3, each used once, with GlusterCliListFriends = 3 and
\* GlusterAggregatorGetlimit = 2.
C21_ProcedureNumber ==
    /\ {GlusterCliCommand[n] : n \in DOMAIN GlusterCliCommand} = 0..46
    /\ Cardinality(DOMAIN GlusterCliCommand) = 47
    /\ {GlusterAggregatorCommand[n] : n \in DOMAIN GlusterAggregatorCommand} = 0..3
    /\ Cardinality(DOMAIN GlusterAggregatorCommand) = 4
    /\ GlusterCliCommand["GlusterCliListFriends"] = 3
    /\ GlusterAggregatorCommand["GlusterAggregatorGetlimit"] = 2
    /\ (cin.kind = "call" /\ cpc \in {"header", "done"})
           => /\ Len(enc.call_bytes) >= 24
              /\ SubSeq(enc.call_bytes, 21, 24) = WordOf(ProcNum(cin.proc))
              /\ U32Val(SubSeq(enc.call_bytes, 21, 24)) = ProcNum(cin.proc)

C21_Witness ==
    /\ cin.kind = "call"
    /\ cpc = "header"
    /\ cin.proc = [enum |-> "GlusterCliCommand", name |-> "GlusterCliMaxvalue"]
    /\ SubSeq(enc.call_bytes, 21, 24) = <<0, 0, 0, 46>>

(***************************************************************************)
(* get_quota_usage (src/src/volume.rs lines 587-675): one call over its    *)
(* own UnixStream.  A u64 is kept as the 8 bytes of its big-endian form.   *)
(* The peer's reply is a byte stream; the socket calls succeed or fail as  *)
(* the environment decides.                                                *)
(***************************************************************************)
Repeat(b, n) == [i \in 1..n |-> b]

\* "trusted.glusterfs.quota.size"
QuotaSizeKey ==
    <<116, 114, 117, 115, 116, 101, 100, 46, 103, 108, 117, 115, 116, 101, 114, 102, 115,
      46, 113, 117, 111, 116, 97, 46, 115, 105, 122, 101>>

\* A variant of read_u64 that takes the bytes least significant first.
read_u64_little_endian(d, p) ==
    IF p + 8 <= Len(d)
    THEN [tag |-> "Ok", v |-> [i \in 1..8 |-> d[p + 9 - i]], pos |-> p + 8]
    ELSE Err(ByteOrderEof, Len(d))

\* ReadBytesExt::read_u64::<BigEndian>: all eight bytes or UnexpectedEOF.
read_u64(d, p) ==
    IF p + 8 <= Len(d)
    THEN [tag |-> "Ok", v |-> SubSeq(d, p + 1, p + 8), pos |-> p + 8]
    ELSE Err(ByteOrderEof, Len(d))

\* Vec::with_capacity(size as usize) and HashMap::with_capacity(count as usize)
\* reserve room for the declared number before a byte is read.  A request of 2^31
\* or more exceeds isize::MAX where usize has 32 bits ("capacity overflow") and
\* asks for gigabytes elsewhere: the allocation is granted or the thread panics.
CapacityOverflow(w) == w[1] >= 128

\* The capacity unpack_replyheader asks for: the verifier's declared size, when the
\* parse gets that far.
HeaderCapacities(d, p) ==
    LET xid == read_u32(d, p)
    IN  IF xid.tag = "Err" THEN {}
        ELSE LET msg_type == read_i32(d, xid.pos)
             IN  IF msg_type.tag = "Err" \/ msg_type.v # REPLY THEN {}
                 ELSE LET stat == read_i32(d, msg_type.pos)
                      IN  IF stat.tag = "Err" \/ stat.v # MSG_ACCEPTED THEN {}
                          ELSE LET auth_flavor == read_i32(d, stat.pos)
                               IN  IF auth_flavor.tag = "Err" THEN {}
                                   ELSE LET size == read_u32(d, auth_flavor.pos)
                                        IN  IF size.tag = "Err" THEN {} ELSE {size.v}

RECURSIVE EntryCapacities(_, _, _)
\* The capacities the loop of deserialize_dict asks for through unpack_key and
\* unpack_value, left more entries to read.
EntryCapacities(d, p, left) ==
    IF left = 0 THEN {}
    ELSE LET key_len == read_u32(d, p)
         IN  IF key_len.tag = "Err" THEN {}
             ELSE LET value_len == read_u32(d, key_len.pos)
                  IN  IF value_len.tag = "Err" THEN {}
                      ELSE LET key == unpack_key(d, value_len.pos, key_len.v)
                           IN  IF key.tag = "Err" THEN {key_len.v}
                               ELSE LET value == unpack_value(d, key.pos, value_len.v, FALSE)
                                    IN  {key_len.v, value_len.v}
                                        \cup (IF value.tag = "Err" THEN {}
                                              ELSE EntryCapacities(d, value.pos, left - 1))

\* The capacities deserialize_dict asks for: the count for the HashMap, then the
\* lengths of the keys and values.
DictCapacities(d, p) ==
    LET count == read_u32(d, p)
    IN  IF count.tag = "Err" THEN {}
        ELSE {count.v}
             \cup EntryCapacities(d, count.pos,
                      IF WordAtMost(count.v, Len(d)) THEN U32Val(count.v) ELSE Len(d) + 1)

\* The capacities GlusterCliResponse::unpack asks for: the size of op_errstr, the
\* size of the dict blob, then those of deserialize_dict.
CliResponseCapacities(d, p) ==
    LET h == ReadOpRetErrno(d, p)
    IN  IF h.tag = "Err" THEN {}
        ELSE LET size == read_u32(d, h.pos)
             IN  IF size.tag = "Err" THEN {}
                 ELSE LET op_errstr == unpack_string(d, size.pos, size.v)
                      IN  IF op_errstr.tag = "Err" THEN {size.v}
                          ELSE LET dsize == read_u32(d, op_errstr.pos)
                               IN  IF dsize.tag = "Err" THEN {size.v}
                                   ELSE LET s == unpack_dict_bytes(d, dsize.pos, dsize.v)
                                        IN  {size.v, dsize.v}
                                            \cup (IF s.tag = "Err" THEN {}
                                                  ELSE DictCapacities(s.v, 0))

\* ---- the call get_quota_usage builds
\* GlusterCliRequest::pack
CliRequestPack(m, order) == PackDictAfter(<<>>, m.dict, order)

\* The dict of the request: gfid, type, volume-uuid and version, each value NUL
\* terminated.
QuotaDict(volume) ==
    (<<103, 102, 105, 100>> :>
         (Repeat(48, 8) \o <<45>> \o Repeat(48, 4) \o <<45>> \o Repeat(48, 4) \o <<45>>
          \o Repeat(48, 4) \o <<45>> \o Repeat(48, 11) \o <<49, 0>>))
    @@ (<<116, 121, 112, 101>> :> <<53, 0>>)
    @@ (<<118, 111, 108, 117, 109, 101, 45, 117, 117, 105, 100>> :> (volume \o <<0>>))
    @@ (<<118, 101, 114, 115, 105, 111, 110>> :>
            <<49, 46, 50, 48, 48, 48, 48, 48, 48, 53, 0>>)

\* Lines 588-641: the call header for GlusterAggregatorGetlimit with xid 1 and
\* vers 1, then the packed request.
QuotaCallBytes(volume, order) ==
    LET verf_bytes == GlusterAuthPack([flavor |-> "AuthNull", stuff |-> ZeroWord])
        cred_bytes == GlusterCredPack([flavor |-> GLUSTER_V2_CRED_FLAVOR, pid |-> ZeroWord,
                                       uid |-> ZeroWord, gid |-> ZeroWord, groups |-> <<>>,
                                       lock_owner |-> ZeroWord])
        call_bytes == pack_quota_callheader(WordOf(1), GLUSTER_QUOTA_PROGRAM_NUMBER,
                                            WordOf(1), "GlusterAggregatorGetlimit",
                                            cred_bytes, verf_bytes)
        quota_bytes == CliRequestPack([dict |-> QuotaDict(volume)], order)
    IN  IF quota_bytes.tag = "Err" THEN quota_bytes
        ELSE Ok(call_bytes \o quota_bytes.v)

\* ---- the transport as get_quota_usage sees it
\* send_fragment(socket, last, fragment): the two writes and the flush fail (io)
\* or succeed; the result counts the bytes the writes accepted.
send_fragment(lst, frag, io) ==
    IF io
    THEN {Failed(IoFailure)}
    ELSE {Ok(k1 + k2) : k1 \in WriteCounts(send_header(LenAsU32(frag), lst)),
                        k2 \in WriteCounts(frag)}

\* sendrecord(sock, record)
sendrecord(rec, io) == send_fragment(TRUE, rec, io)

Blocked == [tag |-> "Blocked"]

RECURSIVE recv_fragments(_, _, _, _)
\* The loop of recvrecord over a stream of bytes w that ends (eof) or stays open
\* after them, the reader at p with rec collected: recv_fragment by recv_fragment
\* until one has the last flag.  A read the stream cannot serve and does not end
\* waits for ever.
recv_fragments(w, eof, p, rec) ==
    IF Len(w) - p < 4
    THEN IF eof THEN Failed(GlusterErrorNew(<<"EOF Error">>)) ELSE Blocked
    ELSE LET h == SubSeq(w, p + 1, p + 4)
             n == header_len(h)
         IN  IF Len(w) - (p + 4) < n /\ ~eof THEN Blocked
             ELSE LET r == recv_body(w, p + 4, n)
                  IN  IF header_last(h) THEN Ok(record_push(rec, r.v))
                      ELSE recv_fragments(w, eof, r.pos, record_push(rec, r.v))

\* recvrecord(sock): a read fails (io) or the loop runs.
recvrecord(w, eof, io) ==
    IF io THEN Failed(IoFailure) ELSE recv_fragments(w, eof, 0, <<>>)

\* ---- what quotad may send back
\* The reply header of tests::list_quota with verifier verf: xid 1, REPLY,
\* MSG_ACCEPTED, flavor 0, the verifier, accept status stat.
QuotaReplyHeader(verf_size, verf, stat) ==
    <<0, 0, 0, 1, 0, 0, 0, 1, 0, 0, 0, 0, 0, 0, 0, 0>> \o verf_size \o verf \o I32Word(stat)

\* The response of tests::list_quota: op_ret 0, op_errno 117, op_errstr, the dict
\* blob with its size.
QuotaResponse(op_errstr, blob_size, blob) ==
    <<0, 0, 0, 0, 0, 0, 0, 117>> \o op_errstr \o blob_size \o blob

\* reply_bytes of tests::list_quota
list_quota_reply_bytes ==
    <<0, 0, 0, 1, 0, 0, 0, 1, 0, 0, 0, 0, 0, 0, 0, 0, 0, 0, 0, 0, 0, 0, 0, 0, 0, 0, 0, 0, 0,
      0, 0, 117, 0, 0, 0, 0, 0, 0, 0, 228, 0, 0, 0, 6, 0, 0, 0, 4, 0, 0, 0, 2, 116, 121, 112,
      101, 0, 53, 0, 0, 0, 0, 28, 0, 0, 0, 24, 116, 114, 117, 115, 116, 101, 100, 46, 103,
      108, 117, 115, 116, 101, 114, 102, 115, 46, 113, 117, 111, 116, 97, 46, 115, 105, 122,
      101, 0, 0, 0, 0, 1, 58, 0, 0, 0, 0, 0, 0, 0, 0, 0, 0, 1, 0, 0, 0, 0, 0, 0, 0, 4, 0, 0,
      0, 23, 0, 0, 0, 2, 103, 108, 117, 115, 116, 101, 114, 102, 115, 46, 97, 110, 99, 101,
      115, 116, 114, 121, 46, 112, 97, 116, 104, 0, 47, 0, 0, 0, 0, 21, 0, 0, 0, 16, 116,
      114, 117, 115, 116, 101, 100, 46, 103, 108, 117, 115, 116, 101, 114, 102, 115, 46, 100,
      104, 116, 0, 0, 0, 0, 1, 0, 0, 0, 0, 0, 0, 0, 0, 255, 255, 255, 255, 0, 0, 0, 23, 0, 0,
      0, 2, 103, 108, 117, 115, 116, 101, 114, 102, 115, 46, 101, 110, 116, 114, 121, 108,
      107, 45, 99, 111, 117, 110, 116, 0, 48, 0, 0, 0, 0, 23, 0, 0, 0, 2, 103, 108, 117, 115,
      116, 101, 114, 102, 115, 46, 105, 110, 111, 100, 101, 108, 107, 45, 99, 111, 117, 110,
      116, 0, 48, 0>>

\* A dict blob of one entry, as the fixture lays entries out.
OneEntryBlob(key, value) == WordOf(1) \o EntryBytes(key, value)

\* A reply with the quota size key and value.
QuotaSizeReply(value) ==
    QuotaReplyHeader(ZeroWord, <<>>, SUCCESS)
    \o QuotaResponse(ZeroWord, WordOf(Len(OneEntryBlob(QuotaSizeKey, value))),
                     OneEntryBlob(QuotaSizeKey, value))

\* The reply b under another xid (its first four bytes).
WithXid(b, xid) == xid \o SubSeq(b, 5, Len(b))

\* A reply with an empty verifier under another op_ret and op_errno (the eight bytes
\* after the 24 of the reply header) and with op_errstr (size and bytes) in the
\* place of the empty one.
WithOp(b, op_ret, op_errno, op_errstr) ==
    SubSeq(b, 1, 24) \o op_ret \o op_errno \o op_errstr \o SubSeq(b, 37, Len(b))

QuotaReplyKinds ==
    {"fixture", "size8", "size3", "absent", "no_dict", "denied", "prog_unavail",
     "cut_header", "cut_dict", "bad_verf", "padded_errstr", "huge_verf", "huge_errstr",
     "huge_count", "xid_other", "xid_max", "failed", "failed_errstr", "failed_padded",
     "bad_errstr"}

\* The bytes of each reply tried.
QuotaReplyBytes(kind) ==
    CASE kind = "fixture" -> list_quota_reply_bytes
      [] kind = "size8" -> QuotaSizeReply(<<0, 0, 0, 0, 0, 0, 4, 1>>)
      [] kind = "size3" -> QuotaSizeReply(<<1, 2, 3>>)
      [] kind = "absent" ->
            QuotaReplyHeader(ZeroWord, <<>>, SUCCESS)
            \o QuotaResponse(ZeroWord,
                             WordOf(Len(OneEntryBlob(<<116, 121, 112, 101>>, <<53, 0>>))),
                             OneEntryBlob(<<116, 121, 112, 101>>, <<53, 0>>))
      [] kind = "no_dict" ->
            QuotaReplyHeader(ZeroWord, <<>>, SUCCESS) \o QuotaResponse(ZeroWord, ZeroWord, <<>>)
      [] kind = "denied" -> <<0, 0, 0, 1, 0, 0, 0, 1, 0, 0, 0, 1, 0, 0, 0, 1, 0, 0, 0, 2>>
      [] kind = "prog_unavail" -> QuotaReplyHeader(ZeroWord, <<>>, PROG_UNAVAIL)
      [] kind = "cut_header" -> <<0, 0, 0, 1, 0, 0, 0, 1, 0, 0>>
      [] kind = "cut_dict" ->
            SubSeq(QuotaSizeReply(<<0, 0, 0, 0, 0, 0, 4, 1>>), 1,
                   Len(QuotaSizeReply(<<0, 0, 0, 0, 0, 0, 4, 1>>)) - 3)
      [] kind = "bad_verf" ->
            QuotaReplyHeader(WordOf(4), <<255, 0, 0, 0>>, SUCCESS)
            \o QuotaResponse(ZeroWord, WordOf(Len(OneEntryBlob(QuotaSizeKey, Repeat(7, 8)))),
                             OneEntryBlob(QuotaSizeKey, Repeat(7, 8)))
      [] kind = "padded_errstr" ->
            QuotaReplyHeader(ZeroWord, <<>>, SUCCESS)
            \o QuotaResponse(pack_string(<<110, 111>>),
                             WordOf(Len(OneEntryBlob(QuotaSizeKey, Repeat(7, 8)))),
                             OneEntryBlob(QuotaSizeKey, Repeat(7, 8)))
      [] kind = "huge_verf" ->
            QuotaReplyHeader(<<255, 255, 255, 255>>, <<>>, SUCCESS)
      [] kind = "huge_errstr" ->
            QuotaReplyHeader(ZeroWord, <<>>, SUCCESS)
            \o QuotaResponse(<<128, 0, 0, 0>>, ZeroWord, <<>>)
      [] kind = "huge_count" ->
            QuotaReplyHeader(ZeroWord, <<>>, SUCCESS)
            \o QuotaResponse(ZeroWord, WordOf(4), <<255, 255, 255, 255>>)
      [] kind = "xid_other" ->
            WithXid(QuotaSizeReply(<<0, 0, 0, 0, 0, 0, 4, 1>>), <<0, 0, 0, 2>>)
      [] kind = "xid_max" ->
            WithXid(QuotaSizeReply(<<0, 0, 0, 0, 0, 0, 4, 1>>), <<255, 255, 255, 255>>)
      [] kind = "failed" ->
            WithOp(QuotaSizeReply(<<0, 0, 0, 0, 0, 0, 4, 1>>), <<255, 255, 255, 255>>,
                   <<0, 0, 0, 5>>, ZeroWord)
      [] kind = "failed_errstr" ->
            WithOp(QuotaSizeReply(<<0, 0, 0, 0, 0, 0, 4, 1>>), <<255, 255, 255, 255>>,
                   <<0, 0, 0, 5>>, pack_string(<<102, 97, 105, 108>>))
      [] kind = "failed_padded" ->
            WithOp(QuotaSizeReply(<<0, 0, 0, 0, 0, 0, 4, 1>>), <<255, 255, 255, 255>>,
                   <<0, 0, 0, 5>>, pack_string(<<110, 111>>))
      [] kind = "bad_errstr" ->
            WithOp(QuotaSizeReply(<<0, 0, 0, 0, 0, 0, 4, 1>>), ZeroWord, <<0, 0, 0, 117>>,
                   pack_string(<<255, 0, 0, 0>>))

QuotaFramings == {"one", "two", "no_last", "short"}

\* The stream the peer writes: the reply as one last fragment, as two fragments,
\* as a fragment without the last flag, or as one fragment two bytes short of its
\* declared length.
QuotaStream(kind, framing) ==
    LET b == QuotaReplyBytes(kind)
        k == Min(10, Len(b))
    IN  CASE framing = "one" -> FragHeader(TRUE, Len(b)) \o b
          [] framing = "two" ->
                FragHeader(FALSE, k) \o SubSeq(b, 1, k)
                \o FragHeader(TRUE, Len(b) - k) \o SubSeq(b, k + 1, Len(b))
          [] framing = "no_last" -> FragHeader(FALSE, Len(b)) \o b
          [] framing = "short" -> FragHeader(TRUE, Len(b)) \o SubSeq(b, 1, Len(b) - 2)

Volumes == {<<118>>, Repeat(118, 127)}

\* What a call meets: the volume name, the socket call that fails if any, the
\* peer's reply and framing, and whether the peer closes the stream after it.
QuotaCalls ==
    [kind : {"quota"}, volume : Volumes, io : {"ok", "connect", "send", "recv"},
     reply : QuotaReplyKinds, framing : QuotaFramings, eof : BOOLEAN]

InitQuota ==
    /\ ReplyIdle
    /\ TransportIdle
    /\ CodecIdle
    /\ qin \in QuotaCalls
    /\ qpc = "pack"
    /\ sock = "none"
    /\ qsteps = <<>>
    /\ qlocal = Nothing
    /\ qresult = Nothing

\* A variant of the return that leaves the stream open (as mem::forget(sock) would).
Return_leak(r) ==
    /\ qresult' = r
    /\ qpc' = "done"
    /\ sock' = sock

\* return / try!: the result goes to the caller and the locals are dropped; the
\* drop of sock closes the stream.
Return(r) ==
    /\ qresult' = r
    /\ qpc' = "done"
    /\ sock' = IF sock = "open" THEN "closed" ELSE sock

\* A capacity request is refused: the thread unwinds (or the process ends), which
\* closes the stream; get_quota_usage returns nothing.
Panic ==
    /\ qresult' = [tag |-> "Panic"]
    /\ qpc' = "panicked"
    /\ sock' = IF sock = "open" THEN "closed" ELSE sock

\* Lines 588-641: verf.pack(), creds.pack(), pack_quota_callheader and
\* quota_request.pack(), each under try!.
QuotaPack ==
    /\ qpc = "pack"
    /\ qsteps' = Append(qsteps, "pack")
    /\ \E order \in IterOrders(DOMAIN QuotaDict(qin.volume)) :
           LET call == QuotaCallBytes(qin.volume, order)
           IN  IF call.tag = "Err"
               THEN Return(call) /\ UNCHANGED qlocal
               ELSE /\ qlocal' = [call_bytes |-> call.v]
                    /\ qpc' = "connect"
                    /\ UNCHANGED <<sock, qresult>>
    /\ UNCHANGED <<pvars, tvars, cvars, qin>>

\* let mut sock = try!(UnixStream::connect(&addr));
QuotaConnect ==
    /\ qpc = "connect"
    /\ qsteps' = Append(qsteps, "connect")
    /\ IF qin.io = "connect"
       THEN Return(Failed(IoFailure))
       ELSE /\ sock' = "open"
            /\ qpc' = "send"
            /\ UNCHANGED qresult
    /\ UNCHANGED <<pvars, tvars, cvars, qin, qlocal>>

\* let send_bytes = try!(rpc::sendrecord(&mut sock, &call_bytes)); neither
\* call_bytes nor send_bytes is read again.
QuotaSendrecord ==
    /\ qpc = "send"
    /\ qsteps' = Append(qsteps, "sendrecord")
    /\ \E r \in sendrecord(qlocal.call_bytes, qin.io = "send") :
           IF r.tag = "Err"
           THEN Return(r) /\ UNCHANGED qlocal
           ELSE /\ qlocal' = Nothing
                /\ qpc' = "recv"
                /\ UNCHANGED <<sock, qresult>>
    /\ UNCHANGED <<pvars, tvars, cvars, qin>>

\* let mut reply_bytes = try!(rpc::recvrecord(&mut sock)); then the cursor over
\* them.
QuotaRecvrecord ==
    /\ qpc = "recv"
    /\ LET r == recvrecord(QuotaStream(qin.reply, qin.framing), qin.eof, qin.io = "recv")
       IN  /\ r.tag # "Blocked"
           /\ IF r.tag = "Err"
              THEN Return(r) /\ UNCHANGED qlocal
              ELSE /\ qlocal' = [reply_bytes |-> r.v, cursor |-> 0]
                   /\ qpc' = "header"
                   /\ UNCHANGED <<sock, qresult>>
    /\ qsteps' = Append(qsteps, "recvrecord")
    /\ UNCHANGED <<pvars, tvars, cvars, qin>>

\* A variant that goes on to the response whatever the header parse returned.
QuotaUnpackReplyheader_lenient ==
    /\ qpc = "header"
    /\ qsteps' = Append(qsteps, "unpack_replyheader")
    /\ LET h == unpack_replyheader(qlocal.reply_bytes, qlocal.cursor)
       IN  /\ qlocal' = [qlocal EXCEPT !.cursor = h.pos]
           /\ qpc' = "response"
           /\ UNCHANGED <<sock, qresult>>
    /\ UNCHANGED <<pvars, tvars, cvars, qin>>

\* A variant that takes the reply only when its xid is the xid of the call.
QuotaUnpackReplyheader_xid_checked ==
    /\ qpc = "header"
    /\ qsteps' = Append(qsteps, "unpack_replyheader")
    /\ LET h == unpack_replyheader(qlocal.reply_bytes, qlocal.cursor)
       IN  \/ IF h.tag = "Err"
              THEN Return(Failed(h.err)) /\ UNCHANGED qlocal
              ELSE IF h.xid # WordOf(1)
              THEN Return(Failed(GlusterErrorNew(<<"xid mismatch">>))) /\ UNCHANGED qlocal
              ELSE /\ qlocal' = [qlocal EXCEPT !.cursor = h.pos]
                   /\ qpc' = "response"
                   /\ UNCHANGED <<sock, qresult>>
           \/ /\ \E w \in HeaderCapacities(qlocal.reply_bytes, qlocal.cursor) :
                     CapacityOverflow(w)
              /\ Panic
              /\ UNCHANGED qlocal
    /\ UNCHANGED <<pvars, tvars, cvars, qin>>

\* try!(rpc::unpack_replyheader(&mut cursor));
QuotaUnpackReplyheader ==
    /\ qpc = "header"
    /\ qsteps' = Append(qsteps, "unpack_replyheader")
    /\ LET h == unpack_replyheader(qlocal.reply_bytes, qlocal.cursor)
       IN  \/ IF h.tag = "Err"
              THEN Return(Failed(h.err)) /\ UNCHANGED qlocal
              ELSE /\ qlocal' = [qlocal EXCEPT !.cursor = h.pos]
                   /\ qpc' = "response"
                   /\ UNCHANGED <<sock, qresult>>
           \/ /\ \E w \in HeaderCapacities(qlocal.reply_bytes, qlocal.cursor) :
                     CapacityOverflow(w)
              /\ Panic
              /\ UNCHANGED qlocal
    /\ UNCHANGED <<pvars, tvars, cvars, qin>>

\* let mut cli_response = try!(rpc::GlusterCliResponse::unpack(&mut cursor));
QuotaUnpackResponse ==
    /\ qpc = "response"
    /\ qsteps' = Append(qsteps, "unpack")
    /\ LET r == CliResponseUnpack(qlocal.reply_bytes, qlocal.cursor)
       IN  \/ IF r.tag = "Err"
              THEN Return(Failed(r.err)) /\ UNCHANGED qlocal
              ELSE /\ qlocal' = [reply_bytes |-> qlocal.reply_bytes, cursor |-> r.pos,
                                 cli_response |-> r.v]
                   /\ qpc' = "value"
                   /\ UNCHANGED <<sock, qresult>>
           \/ /\ \E w \in CliResponseCapacities(qlocal.reply_bytes, qlocal.cursor) :
                     CapacityOverflow(w)
              /\ Panic
              /\ UNCHANGED qlocal
    /\ UNCHANGED <<pvars, tvars, cvars, qin>>

\* A variant that fails when the response reports a failed operation.
QuotaReadSize_op_ret_checked ==
    /\ qpc = "value"
    /\ qsteps' = Append(qsteps, "read_size")
    /\ IF qlocal.cli_response.op_ret # 0
       THEN Return(Failed(GlusterErrorNew(<<"operation failed">>)))
       ELSE IF QuotaSizeKey \notin DOMAIN qlocal.cli_response.dict
       THEN Return(Failed(GlusterErrorNew(
                <<"trusted.glusterfs.quota.size was not returned from quotad">>)))
       ELSE LET usage == read_u64(qlocal.cli_response.dict[QuotaSizeKey], 0)
            IN  IF usage.tag = "Err" THEN Return(Failed(usage.err))
                ELSE Return(Ok(usage.v))
    /\ UNCHANGED <<pvars, tvars, cvars, qin, qlocal>>

\* Lines 657-674: the value under "trusted.glusterfs.quota.size", or the error
\* that it was not returned; then read_u64 of its first bytes.
QuotaReadSize ==
    /\ qpc = "value"
    /\ qsteps' = Append(qsteps, "read_size")
    /\ IF QuotaSizeKey \notin DOMAIN qlocal.cli_response.dict
       THEN Return(Failed(GlusterErrorNew(
                <<"trusted.glusterfs.quota.size was not returned from quotad">>)))
       ELSE LET usage == read_u64(qlocal.cli_response.dict[QuotaSizeKey], 0)
            IN  IF usage.tag = "Err" THEN Return(Failed(usage.err))
                ELSE Return(Ok(usage.v))
    /\ UNCHANGED <<pvars, tvars, cvars, qin, qlocal>>

NextQuota ==
    \/ QuotaPack
    \/ QuotaConnect
    \/ QuotaSendrecord
    \/ QuotaRecvrecord
    \/ QuotaUnpackReplyheader
    \/ QuotaUnpackResponse
    \/ QuotaReadSize

SpecQuota == InitQuota /\ [][NextQuota]_vars

(***************************************************************************)
(* Claims about get_quota_usage.                                           *)
(***************************************************************************)
\* The call has decoded the reply: the header parse and the response decode both
\* returned Ok.
QuotaDecoded == qpc = "done" /\ Len(qsteps) = 7

\* The error of a missing key.
QuotaKeyMissing ==
    Failed(GlusterErrorNew(<<"trusted.glusterfs.quota.size was not returned from quotad">>))

\* C22: when the reply header is accepted with SUCCESS and the decoded dict has the
\* key "trusted.glusterfs.quota.size", get_quota_usage returns Ok(v), v the
\* big-endian u64 of the first 8 bytes of the value; it fails with the
\* application error when the key is absent, with an error when the value has
\* fewer than 8 bytes or the reply is short or malformed; and no case panics.
C22_QuotaUsage ==
    /\ qpc # "panicked"
    /\ QuotaDecoded
           => LET dict == qlocal.cli_response.dict
              IN  /\ (QuotaSizeKey \in DOMAIN dict /\ Len(dict[QuotaSizeKey]) >= 8)
                         => qresult = Ok(SubSeq(dict[QuotaSizeKey], 1, 8))
                  /\ QuotaSizeKey \notin DOMAIN dict => qresult = QuotaKeyMissing
                  /\ (QuotaSizeKey \in DOMAIN dict /\ Len(dict[QuotaSizeKey]) < 8)
                         => qresult.tag = "Err"
    /\ (qpc = "done" /\ ~QuotaDecoded) => qresult.tag = "Err"
    /\ (qpc = "done"
        /\ qin.reply \in {"no_dict", "denied", "prog_unavail", "cut_header", "cut_dict",
                          "huge_verf", "huge_errstr", "huge_count", "size3", "absent"})
           => qresult.tag = "Err"
    /\ (qpc = "done" /\ qin.framing = "short") => qresult.tag = "Err"

\* The five steps of the claim, in the order of the code.
QuotaStepOrder == <<"connect", "sendrecord", "recvrecord", "unpack_replyheader", "unpack">>

\* The steps run, without the packing before the first and the read after the last.
QuotaStepsRun == SelectSeq(qsteps, LAMBDA s : s \in {QuotaStepOrder[i] : i \in 1..5})

\* What the step that ran last returned, computed again from what it was given.
QuotaLastStepResult ==
    LET s == qsteps[Len(qsteps)]
    IN  CASE s = "connect" -> Failed(IoFailure)
          [] s = "sendrecord" -> Failed(IoFailure)
          [] s = "recvrecord" ->
                recvrecord(QuotaStream(qin.reply, qin.framing), qin.eof, qin.io = "recv")
          [] s = "unpack_replyheader" ->
                Failed(unpack_replyheader(qlocal.reply_bytes, 0).err)
          [] s = "unpack" ->
                Failed(CliResponseUnpack(qlocal.reply_bytes, qlocal.cursor).err)

\* C23: in one get_quota_usage call the steps connect, sendrecord, recvrecord,
\* unpack_replyheader, GlusterCliResponse::unpack run at most once each and in that
\* order, the response decoded only after the header parse succeeded; when a step
\* fails the call returns that step's error unchanged and runs no later step and
\* repeats no earlier one.
C23_StepOrder ==
    /\ QuotaStepsRun = SubSeq(QuotaStepOrder, 1, Len(QuotaStepsRun))
    /\ "unpack" \in {qsteps[i] : i \in 1..Len(qsteps)}
           => /\ qlocal.reply_bytes
                     = recvrecord(QuotaStream(qin.reply, qin.framing), qin.eof, FALSE).v
              /\ unpack_replyheader(qlocal.reply_bytes, 0).tag = "Ok"
              /\ qin.io = "ok"
    /\ (qpc = "done" /\ qresult.tag = "Err" /\ qsteps[Len(qsteps)] \in {"connect", "sendrecord",
                                                   "recvrecord", "unpack_replyheader", "unpack"})
           => qresult = QuotaLastStepResult
    /\ (qpc = "done" /\ qresult.tag = "Ok") => Len(qsteps) = 7
    /\ (qpc \in {"done", "panicked"}) => ~ENABLED NextQuota

C23_Witness ==
    /\ qpc = "done"
    /\ qin.reply = "prog_unavail"
    /\ qsteps = <<"pack", "connect", "sendrecord", "recvrecord", "unpack_replyheader">>
    /\ qresult = Failed(GlusterErrorNew(<<"call failed PROG_UNAVAIL">>))

\* C24: the socket get_quota_usage opened is closed when the call returns, on
\* every exit path (success, send failure, receive failure, header rejection,
\* decode failure, missing key, short value); each call opens one socket of its
\* own.
C24_SocketClosed ==
    /\ qpc = "done" => sock # "open"
    /\ qpc = "done" => (sock = "closed" <=> (Len(qsteps) >= 2 /\ qin.io # "connect"))
    /\ Cardinality({i \in 1..Len(qsteps) : qsteps[i] = "connect"}) <= 1
    /\ sock = "open" => qpc \in {"send", "recv", "header", "response", "value"}
    /\ sock = "none" => ~(\E i \in 1..Len(qsteps) : qsteps[i] = "sendrecord")

C24_Witness ==
    /\ qpc = "done"
    /\ sock = "closed"
    /\ qin.reply = "absent"
    /\ qresult = QuotaKeyMissing

(***************************************************************************)
(* Claims about the kinds of error.                                        *)
(***************************************************************************)
\* The reply is one its status rejects: a msg_type other than REPLY, a stat that is
\* neither accepted nor denied, a denial, or an accept_status other than SUCCESS.
RejectedByStatus ==
    \/ reply.msg_type # REPLY
    \/ reply.stat \notin {MSG_ACCEPTED, MSG_DENIED}
    \/ IsDenied
    \/ IsAccepted /\ reply.body.accept_status # SUCCESS

\* C25: a reply rejected by its status is reported with an error whose kind is not
\* the IoError kind of socket read, write and EOF failures, so that the kind tells a
\* server rejection from a transport failure.
C25_ProtocolErrorKind ==
    (HeaderParsed /\ HeaderComplete /\ RejectedByStatus)
        => /\ presult.tag = "Err"
           /\ presult.err.kind # IoFailure.kind
           /\ presult.err.kind # GlusterErrorNew(<<"EOF Error">>).kind

\* C26: decoding untrusted input never panics and never succeeds on truncated
\* data: unpack_replyheader and GlusterCliResponse::unpack (with deserialize_dict)
\* return Ok or Err; a declared length or count above the bytes that remain gives
\* an EOF error, and no capacity is reserved for more than the bytes that remain.
C26_UntrustedDecode ==
    /\ qpc # "panicked"
    /\ (qpc = "done" /\ qin.framing \in {"one", "two"}
        /\ qin.reply \in {"cut_header", "cut_dict", "huge_verf", "huge_errstr", "huge_count"}
        /\ Len(qsteps) >= 5)
           => qresult = Failed(ByteOrderEof)
    /\ (\E i \in 1..Len(qsteps) : qsteps[i] = "unpack_replyheader")
           => \A w \in HeaderCapacities(qlocal.reply_bytes, 0) :
                  WordAtMost(w, Len(qlocal.reply_bytes))
    /\ (\E i \in 1..Len(qsteps) : qsteps[i] = "unpack")
           => \A w \in CliResponseCapacities(qlocal.reply_bytes,
                           unpack_replyheader(qlocal.reply_bytes, 0).pos) :
                  WordAtMost(w, Len(qlocal.reply_bytes))

\* C27: the receive bounds the fragment length: a header declaring a length above
\* a fixed maximum is rejected with an error before a buffer is allocated or a
\* payload byte is read for it.  Whatever the maximum, the largest declarable
\* length (2^31 - 1) is above it, so no fragment of that declared length is ever
\* waited for, read or returned.
C27_FragmentLengthBounded ==
    /\ rpc = "body" => header_len(header) < 2147483647
    /\ nfrags > 0 => header_len(header) < 2147483647

\* The receiver waits for bytes that are not there on a stream that is still open.
Hung ==
    /\ writer = "peer" /\ ~closed /\ wire = PeerStream
    /\ \/ rpc = "header" /\ Len(wire) - rpos < 4
       \/ rpc = "body" /\ Len(wire) - rpos < header_len(header)

\* recv_fragment's reads, served by the stream (not failed by the system).
HeaderRead == RecvFragmentHeader /\ ~ReadFailed'
BodyRead == RecvFragmentBody /\ ~ReadFailed'

\* recvrecord as a running program: it takes its next step whenever the read it
\* waits for can be served.
SpecTransportLive ==
    SpecTransport /\ WF_vars(RecvrecordCall) /\ WF_vars(HeaderRead) /\ WF_vars(BodyRead)

\* C30: recvrecord has no timeout and no bound on the number of fragments: once the
\* stream has reached its end it terminates with Ok or Err; after a fragment
\* without the last flag it goes on to the next header however many came before;
\* and while the peer sends neither a last fragment nor the end of the stream the
\* call stays blocked: only the end of the stream or a failed read takes it out.
C30_NoTimeout ==
    /\ closed ~> (rpc = "done" /\ rresult.tag \in {"Ok", "Err"})
    /\ [][(rpc = "body" /\ rpc' # "body" /\ header[1] < 128 /\ ~ReadFailed')
              => rpc' = "header"]_vars
    /\ [][Hung => (Hung' \/ closed' \/ ReadFailed')]_vars
    /\ [](Hung => rresult = Nothing)

C30_Witness ==
    /\ Hung
    /\ rpc = "header"
    /\ nfrags = MaxFrags
    /\ \A i \in 1..Len(frags) : ~frags[i].last

(***************************************************************************)
(* translate_to_bytes (src/src/lib.rs lines 1271-1305).  A &str is the     *)
(* sequence of its characters.  A u64 is kept as four 16-bit limbs, least  *)
(* significant first, so that products stay within TLC's integers.         *)
(***************************************************************************)
Some(v) == [tag |-> "Some", v |-> v]

RECURSIVE MulAddFrom(_, _, _, _)
\* Limbs i.. of x times m plus carry: the limbs of the result and the carry out.
MulAddFrom(x, i, m, carry) ==
    IF i > Len(x) THEN [limbs |-> <<>>, carry |-> carry]
    ELSE LET t == x[i] * m + carry
             rest == MulAddFrom(x, i + 1, m, t \div 65536)
         IN  [limbs |-> <<t % 65536>> \o rest.limbs, carry |-> rest.carry]

\* x * m + a for small m and a.
MulAdd(x, m, a) == MulAddFrom(x, 1, m, a)

DecimalDigits == {"0", "1", "2", "3", "4", "5", "6", "7", "8", "9"}

DigitValue(c) ==
    CASE c = "0" -> 0 [] c = "1" -> 1 [] c = "2" -> 2 [] c = "3" -> 3 [] c = "4" -> 4
      [] c = "5" -> 5 [] c = "6" -> 6 [] c = "7" -> 7 [] c = "8" -> 8 [] c = "9" -> 9

RECURSIVE ParseDigits(_, _, _)
\* The loop of u64::from_str: checked_mul(10) and checked_add(digit) per character.
ParseDigits(s, i, acc) ==
    IF i > Len(s) THEN Ok(acc)
    ELSE IF s[i] \notin DecimalDigits THEN Failed("InvalidDigit")
    ELSE LET r == MulAdd(acc, 10, DigitValue(s[i]))
         IN  IF r.carry # 0 THEN Failed("Overflow") ELSE ParseDigits(s, i + 1, r.limbs)

\* str::parse::<u64>(): an optional '+', then at least one digit, digits only, the
\* value within u64.
parse_u64(s) ==
    LET digits == IF s # <<>> /\ s[1] = "+" THEN Tail(s) ELSE s
    IN  IF s = <<>> THEN Failed("Empty")
        ELSE IF digits = <<>> THEN Failed("InvalidDigit")
        ELSE ParseDigits(digits, 1, <<0, 0, 0, 0>>)

\* str::ends_with
ends_with(s, suffix) ==
    Len(s) >= Len(suffix) /\ SubSeq(s, Len(s) - Len(suffix) + 1, Len(s)) = suffix

RECURSIVE trim_right_matches(_, _)
\* str::trim_right_matches(pattern): the suffix removed as often as it matches.
trim_right_matches(s, suffix) ==
    IF ends_with(s, suffix)
    THEN trim_right_matches(SubSeq(s, 1, Len(s) - Len(suffix)), suffix)
    ELSE s

RECURSIVE Times1024(_, _, _)
\* n * 1024 * ... * 1024 (k factors) on u64, left to right: a product that does not
\* fit panics where overflow checks are compiled in and wraps where they are not.
Times1024(n, k, overflow_checks) ==
    IF k = 0 THEN Ok(n)
    ELSE LET r == MulAdd(n, 1024, 0)
         IN  IF r.carry # 0 /\ overflow_checks THEN [tag |-> "Panic"]
             ELSE Times1024(r.limbs, k - 1, overflow_checks)

\* One branch of translate_to_bytes: the suffix trimmed, the rest parsed, the
\* product.
TranslateUnit(value, suffix, k, overflow_checks) ==
    LET n == parse_u64(trim_right_matches(value, suffix))
    IN  IF n.tag = "Err" THEN Nothing
        ELSE LET r == Times1024(n.v, k, overflow_checks)
             IN  IF r.tag = "Ok" THEN Some(r.v) ELSE r

\* translate_to_bytes(value); Nothing is Option::None.
translate_to_bytes(value, overflow_checks) ==
    IF ends_with(value, <<"P", "B">>)
    THEN TranslateUnit(value, <<"P", "B">>, 5, overflow_checks)
    ELSE IF ends_with(value, <<"T", "B">>)
    THEN TranslateUnit(value, <<"T", "B">>, 4, overflow_checks)
    ELSE IF ends_with(value, <<"G", "B">>)
    THEN TranslateUnit(value, <<"G", "B">>, 3, overflow_checks)
    ELSE IF ends_with(value, <<"M", "B">>)
    THEN TranslateUnit(value, <<"M", "B">>, 2, overflow_checks)
    ELSE IF ends_with(value, <<"K", "B">>)
    THEN TranslateUnit(value, <<"K", "B">>, 1, overflow_checks)
    ELSE IF ends_with(value, <<"B", "y", "t", "e", "s">>)
    THEN TranslateUnit(value, <<"B", "y", "t", "e", "s">>, 0, overflow_checks)
    ELSE Nothing

\* The numeric parts and the suffixes tried; 16384 is 2^14 and 18014398509481984
\* is 2^54, 18446744073709551615 is u64::MAX.
NumericParts ==
    {<<>>, <<"0">>, <<"1">>, <<"1", "0", "0">>, <<"1", ".", "5">>, <<"-", "1">>,
     <<"+", "5">>, <<"a">>, <<"1", "6", "3", "8", "4">>, <<"1", "6", "3", "8", "3">>,
     <<"1", "8", "0", "1", "4", "3", "9", "8", "5", "0", "9", "4", "8", "1", "9", "8", "4">>,
     <<"1", "8", "4", "4", "6", "7", "4", "4", "0", "7", "3", "7", "0", "9", "5", "5", "1",
       "6", "1", "5">>,
     <<"1", "8", "4", "4", "6", "7", "4", "4", "0", "7", "3", "7", "0", "9", "5", "5", "1",
       "6", "1", "6">>}

UnitSuffixes ==
    {<<"K", "B">>, <<"M", "B">>, <<"G", "B">>, <<"T", "B">>, <<"P", "B">>,
     <<"B", "y", "t", "e", "s">>}

OtherSuffixes ==
    {<<>>, <<"B">>, <<"k", "b">>, <<"K", "i", "B">>, <<"E", "B">>, <<" ", "K", "B">>,
     <<"K", "B", " ">>, <<"P", "B", "P", "B">>, <<"K", "B", "M", "B">>,
     <<"B", "y", "t", "e", "s", "B", "y", "t", "e", "s">>}

TranslateInputs ==
    [kind : {"translate"}, num : NumericParts, suffix : UnitSuffixes \cup OtherSuffixes]

InitTranslate ==
    /\ ReplyIdle
    /\ TransportIdle
    /\ QuotaIdle
    /\ cin \in TranslateInputs
    /\ cpc = "ready"
    /\ enc = Nothing
    /\ dec = Nothing

\* translate_to_bytes(value), in a build with or without overflow checks.
TranslateToBytes ==
    /\ cin.kind = "translate"
    /\ cpc = "ready"
    /\ \E overflow_checks \in BOOLEAN :
           dec' = translate_to_bytes(cin.num \o cin.suffix, overflow_checks)
    /\ cpc' = "done"
    /\ UNCHANGED <<pvars, tvars, qvars, cin, enc>>

NextTranslate == TranslateToBytes

SpecTranslate == InitTranslate /\ [][NextTranslate]_vars

\* The numeric part is an unsigned decimal integer that parses as u64.
IsU64Decimal(num) ==
    /\ num # <<>>
    /\ \A i \in 1..Len(num) : num[i] \in DecimalDigits
    /\ parse_u64(num).tag = "Ok"

\* The power of 1024 a unit stands for.
UnitPower(suffix) ==
    CASE suffix = <<"K", "B">> -> 1 [] suffix = <<"M", "B">> -> 2
      [] suffix = <<"G", "B">> -> 3 [] suffix = <<"T", "B">> -> 4
      [] suffix = <<"P", "B">> -> 5 [] suffix = <<"B", "y", "t", "e", "s">> -> 0

RECURSIVE ExactProduct(_, _)
\* n * 1024^k on limbs enough to hold it.
ExactProduct(n, k) == IF k = 0 THEN n ELSE ExactProduct(MulAdd(n, 1024, 0).limbs, k - 1)

\* C28: translate_to_bytes returns Some(n * 1024^k) for an unsigned decimal integer
\* n followed by KB (k = 1), MB (2), GB (3), TB (4) or PB (5), Some(n) for Bytes,
\* and None for every other suffix and for a numeric part that is not an integer;
\* the value is the exact product for every n that parses as u64.
C28_TranslateToBytes ==
    (cin.kind = "translate" /\ cpc = "done")
        => /\ (IsU64Decimal(cin.num) /\ cin.suffix \in UnitSuffixes)
                  => /\ dec.tag = "Some"
                     /\ dec.v \o <<0, 0, 0, 0>>
                            = ExactProduct(parse_u64(cin.num).v \o <<0, 0, 0, 0>>,
                                           UnitPower(cin.suffix))
           /\ cin.suffix \notin UnitSuffixes => dec = Nothing
           /\ (cin.num = <<>> \/ \E i \in 1..Len(cin.num) :
                                     cin.num[i] \notin DecimalDigits \cup {"+"})
                  => dec = Nothing

(***************************************************************************)
(* volume_remove_brick (src/src/volume.rs lines 1059-1091) with            *)
(* ok_to_remove (lines 934-950), process_output and run_command            *)
(* (src/src/lib.rs lines 936-976).  The gluster commands are the           *)
(* environment: each brick of the input carries what its two commands do.  *)
(* enc holds the index of the next brick and the commands run so far.      *)
(***************************************************************************)
MaxBricks == 2

\* What `gluster vol status` can do: exit 0 with a status that parses, exit non-zero
\* (stderr text or stderr that is not UTF-8), exit 0 with output that is not UTF-8
\* or does not parse, or fail to start.
StatusOutcomes ==
    {"ok", "exit_failure", "stderr_not_utf8", "stdout_not_utf8", "unparsable",
     "spawn_failure"}

\* What `gluster volume remove-brick` can do.
RemoveOutcomes == {"ok", "exit_failure", "spawn_failure"}

RemoveBrickCalls ==
    [kind : {"remove_brick"}, force : BOOLEAN,
     bricks : SeqsUpTo([status : StatusOutcomes, remove : RemoveOutcomes], MaxBricks)]

\* run_command: the command's Output, or a panic when the process cannot be started.
run_command(outcome) ==
    IF outcome = "spawn_failure" THEN [tag |-> "Panic"]
    ELSE Ok([success |-> outcome \notin {"exit_failure", "stderr_not_utf8"},
             outcome |-> outcome])

\* process_output: Ok(0) for exit status 0, else the error made of stderr.
process_output(output) ==
    IF output.success THEN Ok(0)
    ELSE IF output.outcome = "stderr_not_utf8" THEN Failed("FromUtf8Error")
    ELSE Failed("IoError")

\* ok_to_remove(volume, brick): the status command, its output parsed, then
\* Ok(true) whatever the status says.
ok_to_remove(outcome) ==
    LET output == run_command(outcome)
    IN  IF output.tag = "Panic" THEN output
        ELSE IF ~output.v.success
        THEN (IF outcome = "stderr_not_utf8" THEN Failed("FromUtf8Error")
              ELSE Failed("IoError"))
        ELSE IF outcome = "stdout_not_utf8" THEN Failed("FromUtf8Error")
        ELSE IF outcome = "unparsable" THEN Failed("IoError")
        ELSE Ok(TRUE)

\* The argument list of the remove-brick command.
RemoveBrickArgs(force) ==
    <<"volume", "remove-brick", "volume">> \o (IF force THEN <<"force">> ELSE <<>>)
        \o <<"start">>

InitRemoveBrick ==
    /\ ReplyIdle
    /\ TransportIdle
    /\ QuotaIdle
    /\ cin \in RemoveBrickCalls
    /\ cpc = "ready"
    /\ enc = [next |-> 1, ran |-> <<>>]
    /\ dec = Nothing

\* volume_remove_brick entered: the empty list is refused.
VolumeRemoveBrick ==
    /\ cin.kind = "remove_brick"
    /\ cpc = "ready"
    /\ IF cin.bricks = <<>>
       THEN cpc' = "done" /\ dec' = Failed("IoError")
       ELSE cpc' = "loop" /\ dec' = dec
    /\ UNCHANGED <<pvars, tvars, qvars, cin, enc>>

\* One turn of `for brick in bricks`: ok_to_remove, then the remove-brick command,
\* whose result goes to the unused local `status`.
RemoveBrickIteration ==
    /\ cin.kind = "remove_brick"
    /\ cpc = "loop"
    /\ enc.next <= Len(cin.bricks)
    /\ LET brick == cin.bricks[enc.next]
           ok == ok_to_remove(brick.status)
           checked == [cmd |-> <<"vol", "status", "volume">>, brick |-> enc.next,
                       success |-> ok.tag = "Ok"]
           output == run_command(brick.remove)
           removed == [cmd |-> RemoveBrickArgs(cin.force), brick |-> enc.next,
                       success |-> output.tag = "Ok" /\ output.v.success]
       IN  IF ok.tag # "Ok"
           THEN /\ enc' = [next |-> enc.next, ran |-> Append(enc.ran, checked)]
                /\ dec' = ok
                /\ cpc' = "done"
           ELSE IF ~ok.v
           THEN /\ enc' = [next |-> enc.next, ran |-> Append(enc.ran, checked)]
                /\ dec' = Failed("IoError")
                /\ cpc' = "done"
           ELSE IF output.tag = "Panic"
           THEN /\ enc' = [next |-> enc.next, ran |-> enc.ran \o <<checked, removed>>]
                /\ dec' = output
                /\ cpc' = "done"
           ELSE /\ enc' = [next |-> enc.next + 1, ran |-> enc.ran \o <<checked, removed>>]
                /\ dec' = dec
                /\ cpc' = "loop"
    /\ UNCHANGED <<pvars, tvars, qvars, cin>>

\* The loop is over: return Ok(0).
RemoveBrickReturn ==
    /\ cin.kind = "remove_brick"
    /\ cpc = "loop"
    /\ enc.next > Len(cin.bricks)
    /\ dec' = Ok(0)
    /\ cpc' = "done"
    /\ UNCHANGED <<pvars, tvars, qvars, cin, enc>>

NextRemoveBrick == VolumeRemoveBrick \/ RemoveBrickIteration \/ RemoveBrickReturn

SpecRemoveBrick == InitRemoveBrick /\ [][NextRemoveBrick]_vars

\* The remove-brick commands run so far.
RemoveCommandsRun == {i \in 1..Len(enc.ran) : enc.ran[i].cmd[2] = "remove-brick"}

\* C29: volume_remove_brick returns an error for the empty brick list and runs no
\* command; it returns an error when a remove-brick command fails to run; it returns
\* Ok(0) only if the remove-brick command succeeded for every brick of the list.
C29_RemoveBrick ==
    (cin.kind = "remove_brick" /\ cpc = "done")
        => /\ cin.bricks = <<>> => dec.tag = "Err" /\ enc.ran = <<>>
           /\ (\E i \in RemoveCommandsRun : ~enc.ran[i].success) => dec.tag = "Err"
           /\ dec = Ok(0)
                  => \A b \in 1..Len(cin.bricks) :
                         \E i \in RemoveCommandsRun :
                             enc.ran[i].brick = b /\ enc.ran[i].success

(***************************************************************************)
(* send_fragment on fragments of any length (src/src/rpc.rs lines          *)
(* 1010-1044).  The fragment is kept as its length alone: a usize, the     *)
(* eight bytes of a 64-bit value with the most significant first.  enc     *)
(* holds the header bytes and the count of payload bytes the socket took.  *)
(***************************************************************************)
\* fragment.len() as u32: the low 32 bits of the usize.
usize_as_u32(len) == SubSeq(len, 5, 8)

\* The lengths tried: below and above 2^31 and 2^32.
FragmentLengths ==
    {<<0, 0, 0, b4, b5, 0, b7, b8>> :
         b4 \in {0, 1}, b5 \in {0, 127, 128, 255}, b7 \in {0, 1}, b8 \in {0, 1, 255}}

\* a <= b for two usize values.
RECURSIVE LeqFrom(_, _, _)
LeqFrom(a, b, i) ==
    IF i > Len(a) THEN TRUE
    ELSE IF a[i] # b[i] THEN a[i] < b[i]
    ELSE LeqFrom(a, b, i + 1)

\* What socket.write(fragment) may accept of len bytes: some of them, at least one
\* if there are any.
PayloadWriteCounts(len) ==
    {w \in FragmentLengths :
         /\ LeqFrom(w, len, 1)
         /\ (w = <<0, 0, 0, 0, 0, 0, 0, 0>>) => (len = w)}

FragmentCalls == [kind : {"fragment"}, len : FragmentLengths, last : BOOLEAN]

InitFragment ==
    /\ ReplyIdle
    /\ TransportIdle
    /\ QuotaIdle
    /\ cin \in FragmentCalls
    /\ cpc = "ready"
    /\ enc = Nothing
    /\ dec = Nothing

\* send_fragment(socket, last, fragment): the header from the length, the write of
\* the header, the write of the payload, the flush.
SendFragmentOfLength ==
    /\ cin.kind = "fragment"
    /\ cpc = "ready"
    /\ LET h == send_header(usize_as_u32(cin.len), cin.last)
       IN  \/ \E k \in WriteCounts(h), w \in PayloadWriteCounts(cin.len) :
                /\ enc' = [header |-> SubSeq(h, 1, k), written |-> w]
                /\ dec' = Ok("bytes_written")
           \/ \E k \in WriteCounts(h) :
                /\ enc' = [header |-> SubSeq(h, 1, k),
                           written |-> <<0, 0, 0, 0, 0, 0, 0, 0>>]
                /\ dec' = Failed(IoFailure)
    /\ cpc' = "done"
    /\ UNCHANGED <<pvars, tvars, qvars, cin>>

NextFragment == SendFragmentOfLength

SpecFragment == InitFragment /\ [][NextFragment]_vars

\* C31: the header send_fragment writes has bit 31 equal to the last flag and bits
\* 0..30 equal to the number of payload bytes written after it, for every fragment
\* length, lengths of 2^31 bytes or more and lengths beyond 32 bits included.
C31_HeaderMatchesPayload ==
    (cin.kind = "fragment" /\ cpc = "done" /\ dec.tag = "Ok")
        => /\ Len(enc.header) = 4
           /\ header_last(enc.header) = cin.last
           /\ <<0, 0, 0, 0, enc.header[1] % 128, enc.header[2], enc.header[3],
                enc.header[4]>> = enc.written

(***************************************************************************)
(* peer_probe and peer_list (src/src/peer.rs lines 238-298) with           *)
(* resolve_to_ip (src/src/lib.rs lines 1047-1076).  The pool of glusterd   *)
(* and the name service are the environment: the pool is the set of names  *)
(* as `gluster pool list` prints them, a name being what the peer was      *)
(* probed by.  enc holds the pool, the calls made, the last call and the   *)
(* probe commands issued.                                                  *)
(***************************************************************************)
MaxProbes == 3

\* The names a caller may probe by, and the address of each name that is not an
\* address itself (`dig +short`, or the local address for localhost).
ProbeHostnames == {"localhost", "10.0.0.1", "node2", "10.0.0.2"}

IsIpAddr(name) == name \in {"10.0.0.1", "10.0.0.2"}

\* resolve_to_ip(address)
resolve_to_ip(address) ==
    IF address = "localhost" THEN "10.0.0.1"
    ELSE IF address = "node2" THEN "10.0.0.2"
    ELSE address

\* What the run of `gluster pool list` and the parse of its output can do.
ListOutcomes ==
    {"ok", "exit_failure", "stdout_not_utf8", "bad_uuid", "resolve_failure",
     "spawn_failure"}

\* peer_list(): the hostnames of the peers listed, every name that is not an
\* address replaced by what it resolves to.  The exit status of the command is not
\* looked at: a command that failed printed no line.
peer_list(pool, outcome) ==
    IF outcome = "spawn_failure" THEN [tag |-> "Panic"]
    ELSE IF outcome = "stdout_not_utf8" THEN Failed("FromUtf8Error")
    ELSE IF outcome = "exit_failure" THEN Ok({})
    ELSE IF outcome = "bad_uuid" THEN Failed("UuidParseError")
    ELSE IF outcome = "resolve_failure" /\ \E name \in pool : ~IsIpAddr(name)
    THEN Failed("IoError")
    ELSE Ok({IF IsIpAddr(name) THEN name ELSE resolve_to_ip(name) : name \in pool})

\* The host a name stands for, and whether it is a member of the pool.
HostOf(name) == IF IsIpAddr(name) THEN name ELSE resolve_to_ip(name)
IsMember(hostname, pool) == \E name \in pool : HostOf(name) = HostOf(hostname)

InitProbe ==
    /\ ReplyIdle
    /\ TransportIdle
    /\ QuotaIdle
    /\ cin = [kind |-> "probe"]
    /\ cpc = "ready"
    /\ \E others \in SUBSET {"node2", "10.0.0.2"} :
           /\ Cardinality(others) <= 1
           /\ enc = [pool |-> {"localhost"} \cup others, calls |-> 0, last |-> Nothing,
                     probes |-> <<>>]
    /\ dec = Nothing

\* for peer in current_peers { if peer.hostname == *hostname ... }
PeerListed(hostname, current_peers) == hostname \in current_peers

\* peer_probe(hostname): peer_list, the comparison, and the `peer probe` command
\* when no peer matched.  glusterd adds a probed host that is not a member yet.
PeerProbe ==
    /\ cin.kind = "probe"
    /\ cpc = "ready"
    /\ enc.calls < MaxProbes
    /\ \E hostname \in ProbeHostnames, listing \in ListOutcomes,
          probing \in RemoveOutcomes :
           LET current_peers == peer_list(enc.pool, listing)
               output == run_command(probing)
               call(list, probed) == [hostname |-> hostname, list |-> list,
                                      probed |-> probed]
               issued == Append(enc.probes,
                                [hostname |-> hostname,
                                 member |-> IsMember(hostname, enc.pool)])
           IN  IF current_peers.tag = "Panic"
               THEN /\ dec' = current_peers
                    /\ cpc' = "panicked"
                    /\ enc' = [enc EXCEPT !.calls = @ + 1,
                                          !.last = call(current_peers, FALSE)]
               ELSE IF current_peers.tag = "Err"
               THEN /\ dec' = current_peers
                    /\ cpc' = cpc
                    /\ enc' = [enc EXCEPT !.calls = @ + 1,
                                          !.last = call(current_peers, FALSE)]
               ELSE IF PeerListed(hostname, current_peers.v)
               THEN /\ dec' = Ok(0)
                    /\ cpc' = cpc
                    /\ enc' = [enc EXCEPT !.calls = @ + 1,
                                          !.last = call(current_peers, FALSE)]
               ELSE IF output.tag = "Panic"
               THEN /\ dec' = output
                    /\ cpc' = "panicked"
                    /\ enc' = [enc EXCEPT !.calls = @ + 1,
                                          !.last = call(current_peers, TRUE)]
               ELSE /\ dec' = process_output(output.v)
                    /\ cpc' = cpc
                    /\ enc' = [pool |-> IF output.v.success
                                           /\ ~IsMember(hostname, enc.pool)
                                        THEN enc.pool \cup {hostname} ELSE enc.pool,
                               calls |-> enc.calls + 1,
                               last |-> call(current_peers, TRUE),
                               probes |-> issued]
    /\ UNCHANGED <<pvars, tvars, qvars, cin>>

NextProbe == PeerProbe

SpecProbe == InitProbe /\ [][NextProbe]_vars

\* The last call of peer_probe got a list of peers from peer_list.
ProbeListed == cin.kind = "probe" /\ enc.last # Nothing /\ enc.last.list.tag = "Ok"

\* C32: peer_probe(h) runs the `peer probe` command if and only if no peer of the
\* current pool list has a hostname equal to h, and returns Ok(0) without a probe
\* when one has; over any sequence of calls no probe is issued for a host that is
\* already a member of the pool.
C32_NoDoubleProbe ==
    /\ ProbeListed
           => /\ enc.last.probed <=> (enc.last.hostname \notin enc.last.list.v)
              /\ (enc.last.hostname \in enc.last.list.v) => dec = Ok(0)
    /\ cin.kind = "probe" => \A i \in 1..Len(enc.probes) : ~enc.probes[i].member

(***************************************************************************)
(* The decode of get_quota_usage as a function of the record received      *)
(* (src/src/volume.rs lines 650-674), to compare a call with the call on   *)
(* a reply that differs in some fields.                                    *)
(***************************************************************************)
\* What the call can come to once recvrecord returned reply_bytes:
\* unpack_replyheader, GlusterCliResponse::unpack, the lookup of the key and
\* read_u64, with the panic a capacity request can raise on the way.
QuotaDecodeResults(reply_bytes) ==
    LET h == unpack_replyheader(reply_bytes, 0)
        header_panics ==
            IF \E w \in HeaderCapacities(reply_bytes, 0) : CapacityOverflow(w)
            THEN {[tag |-> "Panic"]} ELSE {}
    IN  header_panics \cup
        IF h.tag = "Err" THEN {Failed(h.err)}
        ELSE LET r == CliResponseUnpack(reply_bytes, h.pos)
                 response_panics ==
                     IF \E w \in CliResponseCapacities(reply_bytes, h.pos) :
                            CapacityOverflow(w)
                     THEN {[tag |-> "Panic"]} ELSE {}
             IN  response_panics \cup
                 IF r.tag = "Err" THEN {Failed(r.err)}
                 ELSE IF QuotaSizeKey \notin DOMAIN r.v.dict THEN {QuotaKeyMissing}
                 ELSE LET usage == read_u64(r.v.dict[QuotaSizeKey], 0)
                      IN  IF usage.tag = "Err" THEN {Failed(usage.err)}
                          ELSE {Ok(usage.v)}

\* The call has got a record from recvrecord and has come to its end.
QuotaRecordDecoded ==
    /\ qpc \in {"done", "panicked"}
    /\ Len(qsteps) >= 5
    /\ Len(qlocal.reply_bytes) >= 4

\* The xids a reply is tried under.
ReplyXids == {<<0, 0, 0, 0>>, <<0, 0, 0, 1>>, <<0, 0, 0, 2>>, <<128, 0, 0, 0>>,
              <<255, 255, 255, 255>>}

\* C33: the reply's xid is never matched against the call's: get_quota_usage sends
\* xid 1, unpack_replyheader returns whatever xid the reply carries, and the call's
\* result is the one it has for the same reply under any other xid, so a
\* successful reply with any xid is taken for the answer.
C33_XidNotMatched ==
    /\ qpc = "connect" => SubSeq(qlocal.call_bytes, 1, 4) = WordOf(1)
    /\ QuotaRecordDecoded
           => \A xid \in ReplyXids :
                  LET other == WithXid(qlocal.reply_bytes, xid)
                  IN  /\ qresult \in QuotaDecodeResults(other)
                      /\ unpack_replyheader(other, 0).tag = "Ok"
                             => unpack_replyheader(other, 0).xid = xid

C33_Witness ==
    /\ qpc = "done"
    /\ qin.reply = "xid_max"
    /\ qresult = Ok(<<0, 0, 0, 0, 0, 0, 4, 1>>)
    /\ SubSeq(qlocal.reply_bytes, 1, 4) = <<255, 255, 255, 255>>

\* The record received without op_ret and op_errno changed: the eight bytes after
\* the reply header.
WithOpRetErrno(b, p, op_ret, op_errno) ==
    SubSeq(b, 1, p) \o op_ret \o op_errno \o SubSeq(b, p + 9, Len(b))

\* The values of op_ret, op_errno and op_errstr a reply is tried under: -1 and
\* errno 5 among them, and for op_errstr the empty string, "fail", "no" with its
\* padding, and four bytes that are not UTF-8.
OpRets == {<<0, 0, 0, 0>>, <<255, 255, 255, 255>>, <<0, 0, 0, 1>>}
OpErrnos == {<<0, 0, 0, 0>>, <<0, 0, 0, 5>>, <<0, 0, 0, 117>>}
OpErrstrs ==
    {ZeroWord, pack_string(<<102, 97, 105, 108>>), pack_string(<<110, 111>>),
     pack_string(<<255, 0, 0, 0>>)}

\* The call has decoded the header of the record and the record has op_ret and
\* op_errno after it.
QuotaHeaderAccepted ==
    /\ QuotaRecordDecoded
    /\ unpack_replyheader(qlocal.reply_bytes, 0).tag = "Ok"
    /\ Len(qlocal.reply_bytes) >= unpack_replyheader(qlocal.reply_bytes, 0).pos + 8

\* The replies that are the 8-byte size reply under other op_ret, op_errno and
\* op_errstr, received whole.
QuotaOpReplyReceived ==
    /\ QuotaRecordDecoded
    /\ qin.reply \in {"size8", "failed", "failed_errstr", "failed_padded", "bad_errstr"}
    /\ qlocal.reply_bytes = QuotaReplyBytes(qin.reply)

\* C34 as stated: the result of get_quota_usage is the same for two replies that
\* differ only in op_ret, op_errno or op_errstr.
C34_OpFieldsIgnored ==
    QuotaOpReplyReceived
        => \A op_ret \in OpRets, op_errno \in OpErrnos, op_errstr \in OpErrstrs :
               qresult \in QuotaDecodeResults(
                               WithOp(QuotaSizeReply(<<0, 0, 0, 0, 0, 0, 4, 1>>),
                                      op_ret, op_errno, op_errstr))

\* C34: the result of get_quota_usage does not depend on op_ret or op_errno: for
\* two replies that differ only in those two fields the call returns the same
\* result, and a reply with op_ret # 0 whose dict holds the quota size key yields
\* Ok(usage).
C34_OpRetErrnoIgnored ==
    /\ QuotaHeaderAccepted
           => \A op_ret \in OpRets, op_errno \in OpErrnos :
                  qresult \in QuotaDecodeResults(
                                  WithOpRetErrno(qlocal.reply_bytes,
                                      unpack_replyheader(qlocal.reply_bytes, 0).pos,
                                      op_ret, op_errno))
    /\ (QuotaDecoded /\ QuotaSizeKey \in DOMAIN qlocal.cli_response.dict
        /\ Len(qlocal.cli_response.dict[QuotaSizeKey]) >= 8)
           => qresult = Ok(SubSeq(qlocal.cli_response.dict[QuotaSizeKey], 1, 8))

C34_Witness ==
    /\ qpc = "done"
    /\ qin.reply = "failed"
    /\ qresult = Ok(<<0, 0, 0, 0, 0, 0, 4, 1>>)
    /\ qlocal.cli_response.op_ret = -1
    /\ qlocal.cli_response.op_errno = 5

(***************************************************************************)
(* Claims about the credential.                                            *)
(***************************************************************************)
\* C35: in the bytes of GlusterCred::pack the body length after the flavor is the
\* number of bytes that follow it (pid, uid, gid, the packed groups, the lock_owner
\* length and the lock_owner bytes), and the lock_owner length is the number of
\* lock_owner bytes written, for every groups string and every lock_owner.
C35_CredLengths ==
    (cin.kind = "call" /\ cpc = "creds")
        => LET cred_bytes == enc.cred_bytes
               owner_at == 8 + 12 + Len(pack_string(cin.creds.groups))
           IN  /\ SubSeq(cred_bytes, 5, 8) = WordOf(Len(cred_bytes) - 8)
               /\ SubSeq(cred_bytes, owner_at + 1, owner_at + 4)
                      = WordOf(Len(cred_bytes) - (owner_at + 4))
               /\ SubSeq(cred_bytes, owner_at + 5, Len(cred_bytes)) = cin.creds.lock_owner

(***************************************************************************)
(* Claims about wire blobs with repeated keys.                             *)
(***************************************************************************)
\* The entries of the blob that unpack to key k.
EntriesOfKey(k) ==
    {i \in 1..Len(cin.entries) : trim_matches_nul(cin.entries[i].key) = k}

\* The last of a non-empty set of indices.
LastOf(S) == CHOOSE i \in S : \A j \in S : j <= i

\* C36: when two of the count entries of a wire blob carry the same key,
\* deserialize_dict returns Ok with that key once, holding the value of the later
\* entry, so the result has fewer than count entries; every Ok result has at most
\* count entries, and the bytes after the count-th entry are ignored.
C36_DuplicateKeys ==
    (cin.kind = "wire" /\ cpc = "done")
        => /\ dec.tag = "Ok"
           /\ DOMAIN dec.v = {trim_matches_nul(cin.entries[i].key) : i \in 1..Len(cin.entries)}
           /\ \A k \in DOMAIN dec.v : dec.v[k] = cin.entries[LastOf(EntriesOfKey(k))].value
           /\ Cardinality(DOMAIN dec.v) <= Len(cin.entries)
           /\ (\E i, j \in 1..Len(cin.entries) :
                   i < j /\ cin.entries[i].key = cin.entries[j].key)
                  => Cardinality(DOMAIN dec.v) < Len(cin.entries)
           /\ dec.pos = Len(cin.bytes) - Len(cin.rest)
           /\ dec.v = deserialize_dict(WireBytes(Len(cin.entries), cin.entries, <<>>), 0).v

C36_Witness ==
    /\ cin.kind = "wire"
    /\ cpc = "done"
    /\ cin.entries = <<[key |-> <<97>>, value |-> <<118>>], [key |-> <<97>>, value |-> <<0, 1>>]>>
    /\ cin.rest = <<9>>
    /\ dec.tag = "Ok"
    /\ dec.v = (<<97>> :> <<0, 1>>)

(***************************************************************************)
(* Claims about the determinism of the encoders.                           *)
(***************************************************************************)
\* C37: encoding is deterministic: two pack calls on equal request values (dicts of
\* two or more entries as in the quota get-limit request included) return the same
\* bytes, so the bytes built for a call are the bytes every other call on the same
\* volume builds, whatever order the map iterates in.
C37_DeterministicEncoding ==
    (qpc = "connect" /\ qin.kind = "quota")
        => \A order \in IterOrders(DOMAIN QuotaDict(qin.volume)) :
               /\ QuotaCallBytes(qin.volume, order).tag = "Ok"
               /\ qlocal.call_bytes = QuotaCallBytes(qin.volume, order).v

=============================================================================
